---------------------------- MODULE Spec2Model ----------------------------
(***************************************************************************)
(* WCAG contrast utility: hex/RGB/HSL conversion, relative luminance,      *)
(* contrast ratio, threshold policy and the four-path binary-search        *)
(* snapping engine (snapToPassingColor).                                   *)
(*                                                                         *)
(* Number representation.  The source computes in IEEE doubles; the model  *)
(* computes the same formulas in exact fixed point:                        *)
(*   - a contrast ratio is an integer number of millionths (1000000 = 1:1, *)
(*     21000000 = 21:1), truncated;                                        *)
(*   - a relative luminance is an integer number of millionths;            *)
(*   - an HSL lightness is an integer number of units of 100/65280, so     *)
(*     that the lightness of every 8-bit colour (128 * (max + min)) and    *)
(*     every midpoint of seven successive halvings is an exact integer;    *)
(*   - an HSL saturation is the exact fraction <<num, den>>, and a hue is  *)
(*     the integer 6 * h * num (h in turns), also exact.                   *)
(* A hex string is a sequence of one-character strings.                    *)
(***************************************************************************)
EXTENDS Integers, Sequences, FiniteSets, TLC

\* ------------------------------------------------------------------ bounds
\* Number of palette colours offered to a call as foreground / background.
ColourCount == 8

\* Length of the longest string handed to hexToRgb on its own.
MaxHexLen == 7

\* --------------------------------------------------------------- constants
RatioOne == 1000000
EPSILON == 1000
NORMAL_TEXT_THRESHOLD == 4500000
LARGE_TEXT_THRESHOLD == 3000000
maxIterationsMutant == 7 + 1
maxIterations == 7
FullLightness == 65280

Abs(x) == IF x < 0 THEN -x ELSE x
Max2(a, b) == IF a >= b THEN a ELSE b
Min2(a, b) == IF a <= b THEN a ELSE b

\* ------------------------------------------------------------- hex strings
HexDigits == <<"0", "1", "2", "3", "4", "5", "6", "7",
               "8", "9", "A", "B", "C", "D", "E", "F">>

HexChars == {HexDigits[i] : i \in 1..16}

\* the digits toString(16) writes
LowerHexDigits == <<"0", "1", "2", "3", "4", "5", "6", "7",
                    "8", "9", "a", "b", "c", "d", "e", "f">>

\* String.prototype.toUpperCase on one character.
toUpperCase(c) ==
    CASE c = "a" -> "A" [] c = "b" -> "B" [] c = "c" -> "C"
      [] c = "d" -> "D" [] c = "e" -> "E" [] c = "f" -> "F"
      [] c = "g" -> "G"
      [] OTHER -> c

\* parseInt(<one hex digit>, 16)
parseHexDigit(c) == (CHOOSE i \in 1..16 : HexDigits[i] = c) - 1

\* hex.replace('#', ''): removes the FIRST '#', wherever it stands.
replaceFirstHash(hex) ==
    IF \E i \in 1..Len(hex) : hex[i] = "#"
    THEN LET k == CHOOSE i \in 1..Len(hex) :
                     /\ hex[i] = "#"
                     /\ \A j \in 1..(i - 1) : hex[j] # "#"
         IN  [i \in 1..(Len(hex) - 1) |-> IF i < k THEN hex[i] ELSE hex[i + 1]]
    ELSE hex

cleanHexOf(hex) ==
    LET stripped == replaceFirstHash(hex)
    IN  [i \in 1..Len(stripped) |-> toUpperCase(stripped[i])]

\* /^[0-9A-F]{3}$|^[0-9A-F]{6}$/.test(cleanHex)
isValidHex(hex) ==
    LET cleanHex == cleanHexOf(hex)
    IN  /\ Len(cleanHex) \in {3, 6}
        /\ \A i \in 1..Len(cleanHex) : cleanHex[i] \in HexChars

\* The Error thrown by hexToRgb for an invalid string.
hexFormatError(hex) ==
    [error |-> <<"Invalid hex color format: ", hex,
                 ". Expected #RGB or #RRGGBB format.">>]

\* hexToRgb for a string that passes the format test.
hexToRgb(hex) ==
    LET cleanHex == cleanHexOf(hex)
        byte(hi, lo) == 16 * parseHexDigit(hi) + parseHexDigit(lo)
    IN  IF Len(cleanHex) = 3
        THEN [r |-> byte(cleanHex[1], cleanHex[1]),
              g |-> byte(cleanHex[2], cleanHex[2]),
              b |-> byte(cleanHex[3], cleanHex[3])]
        ELSE [r |-> byte(cleanHex[1], cleanHex[2]),
              g |-> byte(cleanHex[3], cleanHex[4]),
              b |-> byte(cleanHex[5], cleanHex[6])]

\* Number.prototype.toString(16) of an integer: lower-case digits, a leading
\* '-' for a negative number, as many digits as the number needs.
RECURSIVE toString16(_)
toString16(n) ==
    IF n < 0 THEN <<"-">> \o toString16(-n)
    ELSE IF n < 16 THEN <<LowerHexDigits[n + 1]>>
    ELSE toString16(n \div 16) \o <<LowerHexDigits[(n % 16) + 1]>>

\* String.prototype.padStart(2, '0')
padStart2(s) == IF Len(s) < 2 THEN <<"0">> \o s ELSE s

\* toHex: Math.round(Math.max(0, Math.min(255, n))).toString(16)
\*          .padStart(2, '0').toUpperCase()   (channels are integers).
toHexMutant(n) ==
    LET digits == padStart2(toString16(n))
    IN  [i \in 1..Len(digits) |-> toUpperCase(digits[i])]
toHex(n) ==
    LET digits == padStart2(toString16(Max2(0, Min2(255, n))))
    IN  [i \in 1..Len(digits) |-> toUpperCase(digits[i])]

rgbToHex(rgb) == <<"#">> \o toHex(rgb.r) \o toHex(rgb.g) \o toHex(rgb.b)

\* --------------------------------------------------- luminance and ratio
\* sRGB inverse companding of channel value c (0..255), in units of 1e-5:
\* round(1e5 * (c/255 <= 0.03928 ? (c/255)/12.92
\*                               : ((c/255 + 0.055)/1.055)^2.4)).
gammaCorrected ==
  <<
            0,     30,     61,     91,    121,    152,    182,    212,
          243,    273,    304,    335,    368,    402,    439,    478,
          518,    561,    605,    651,    700,    750,    802,    857,
          913,    972,   1033,   1096,   1161,   1229,   1298,   1370,
         1444,   1521,   1600,   1681,   1764,   1850,   1938,   2029,
         2122,   2217,   2315,   2416,   2519,   2624,   2732,   2843,
         2956,   3071,   3190,   3310,   3434,   3560,   3689,   3820,
         3955,   4092,   4231,   4374,   4519,   4667,   4817,   4971,
         5127,   5286,   5448,   5613,   5781,   5951,   6125,   6301,
         6480,   6663,   6848,   7036,   7227,   7421,   7619,   7819,
         8022,   8228,   8438,   8650,   8866,   9084,   9306,   9531,
         9759,   9990,  10224,  10462,  10702,  10946,  11193,  11444,
        11697,  11954,  12214,  12477,  12744,  13014,  13287,  13563,
        13843,  14126,  14413,  14703,  14996,  15293,  15593,  15896,
        16203,  16513,  16827,  17144,  17465,  17789,  18116,  18447,
        18782,  19120,  19462,  19807,  20156,  20508,  20864,  21223,
        21586,  21953,  22323,  22697,  23074,  23455,  23840,  24228,
        24620,  25016,  25415,  25818,  26225,  26636,  27050,  27468,
        27889,  28315,  28744,  29177,  29614,  30054,  30499,  30947,
        31399,  31855,  32314,  32778,  33245,  33716,  34191,  34670,
        35153,  35640,  36131,  36625,  37124,  37626,  38133,  38643,
        39157,  39676,  40198,  40724,  41254,  41789,  42327,  42869,
        43415,  43966,  44520,  45079,  45641,  46208,  46778,  47353,
        47932,  48515,  49102,  49693,  50289,  50888,  51492,  52100,
        52712,  53328,  53948,  54572,  55201,  55834,  56471,  57112,
        57758,  58408,  59062,  59720,  60383,  61050,  61721,  62396,
        63076,  63760,  64448,  65141,  65837,  66539,  67244,  67954,
        68669,  69387,  70110,  70838,  71569,  72306,  73046,  73791,
        74540,  75294,  76052,  76815,  77582,  78354,  79130,  79910,
        80695,  81485,  82279,  83077,  83880,  84687,  85499,  86316,
        87137,  87962,  88792,  89627,  90466,  91310,  92158,  93011,
        93869,  94731,  95597,  96469,  97345,  98225,  99110, 100000 >>

\* 0.2126 r + 0.7152 g + 0.0722 b, in millionths.
relativeLuminanceMutant(rgb) ==
    (2126 * gammaCorrected[rgb.r + 1]
       + 7152 * gammaCorrected[rgb.g + 1]
       + 772 * gammaCorrected[rgb.b + 1]) \div 1000
relativeLuminance(rgb) ==
    (2126 * gammaCorrected[rgb.r + 1]
       + 7152 * gammaCorrected[rgb.g + 1]
       + 722 * gammaCorrected[rgb.b + 1]) \div 1000

\* (lighter + 0.05) / (darker + 0.05) in millionths, by long division.
contrastRatioMutant(fgHex, bgHex) ==
    LET n == relativeLuminance(hexToRgb(fgHex)) + 50000
        d == relativeLuminance(hexToRgb(bgHex)) + 50000
        r1 == (n % d) * 1000
        r2 == (r1 % d) * 1000
    IN  (n \div d) * 1000000 + (r1 \div d) * 1000 + (r2 \div d)
contrastRatio(fgHex, bgHex) ==
    LET fgLuminance == relativeLuminance(hexToRgb(fgHex))
        bgLuminance == relativeLuminance(hexToRgb(bgHex))
        lighter == Max2(fgLuminance, bgLuminance)
        darker == Min2(fgLuminance, bgLuminance)
        n == lighter + 50000
        d == darker + 50000
        r1 == (n % d) * 1000
        r2 == (r1 % d) * 1000
    IN  (n \div d) * 1000000 + (r1 \div d) * 1000 + (r2 \div d)

\* threshold selection of passesContrast
requiredThreshold(o) ==
    IF o.isLargeText \/ o.uiComponent
    THEN LARGE_TEXT_THRESHOLD
    ELSE NORMAL_TEXT_THRESHOLD

passesContrast(fgHex, bgHex, o) ==
    contrastRatio(fgHex, bgHex) >= requiredThreshold(o) - EPSILON

\* snapToPassingColor's own copy of the threshold selection
snapThresholdMutant(o) ==
    IF o.isLargeText /\ o.uiComponent
    THEN LARGE_TEXT_THRESHOLD
    ELSE NORMAL_TEXT_THRESHOLD
snapThreshold(o) ==
    IF o.isLargeText \/ o.uiComponent
    THEN LARGE_TEXT_THRESHOLD
    ELSE NORMAL_TEXT_THRESHOLD

\* ------------------------------------------------------------------- HSL
Max3(a, b, c) == Max2(a, Max2(b, c))
Min3(a, b, c) == Min2(a, Min2(b, c))

\* rgbToHsl.  With max, min the extreme channels and diff = max - min:
\*   l = 100 * (max + min) / 510      -> 128 * (max + min) lightness units
\*   s = diff / (max + min) or diff / (510 - max - min) -> <<diff, den>>
\*   h = (sector offset + channel difference / diff) / 6 turns
\*                                    -> 6 * h * diff, an integer
rgbToHsl(rgb) ==
    LET max == Max3(rgb.r, rgb.g, rgb.b)
        min == Min3(rgb.r, rgb.g, rgb.b)
        diff == max - min
        l == 128 * (max + min)
    IN  IF diff = 0
        THEN [h |-> 0, s |-> <<0, 1>>, l |-> l]
        ELSE [h |-> CASE max = rgb.r ->
                           (rgb.g - rgb.b) + (IF rgb.g < rgb.b THEN 6 * diff ELSE 0)
                      [] max = rgb.g -> (rgb.b - rgb.r) + 2 * diff
                      [] OTHER -> (rgb.r - rgb.g) + 4 * diff,
              s |-> <<diff, IF max + min > 255 THEN 510 - max - min ELSE max + min>>,
              l |-> l]

\* hue2rgb(p, q, t) = p + (q - p) * f(t); the operator returns f(t) * diff
\* for t = x / (6 * diff).
hue2rgb(diff, x) ==
    LET t1 == IF x < 0 THEN x + 6 * diff ELSE x
        t == IF t1 > 6 * diff THEN t1 - 6 * diff ELSE t1
    IN  IF t < diff THEN t
        ELSE IF t < 3 * diff THEN diff
        ELSE IF t < 4 * diff THEN 4 * diff - t
        ELSE 0

\* hslToRgb.  q - p = 2 * s * min(l, 1 - l) and p = l - (q - p) / 2, so a
\* channel is  l - s*m + 2*s*m*f  with m = min(l, 1 - l); times 255 and
\* rounded half up (Math.round).
hslToRgb(hsl) ==
    LET l == hsl.l
        diff == hsl.s[1]
        den == hsl.s[2]
        m == Min2(l, FullLightness - l)
        channel(x) ==
            LET num == l * den - diff * m + 2 * m * hue2rgb(diff, x)
            IN  (2 * num + 256 * den) \div (512 * den)
    IN  IF diff = 0
        THEN LET v == (l + 128) \div 256 IN [r |-> v, g |-> v, b |-> v]
        ELSE [r |-> channel(hsl.h + 2 * diff),
              g |-> channel(hsl.h),
              b |-> channel(hsl.h - 2 * diff)]

\* ------------------------------------------------- binarySearchLightness
\* State of one search before its loop: interval, best colour so far and the
\* ratio of the starting colour (the first contrastRatio evaluation).
\* evaluated lists, per loop pass, the midpoint's HSL and RGB, the pair handed
\* to contrastRatio, the ratio and the branch taken.
\* testL, testRatio and accepted record the last midpoint, its ratio and the
\* branch taken on it; exited tells that the loop was left.
searchInitMutant(originalHsl, otherRgb, isLightening) ==
    LET bestRgb == hslToRgb(originalHsl)
    IN  [minL |-> IF isLightening THEN 0 ELSE originalHsl.l,
         maxL |-> IF isLightening THEN originalHsl.l ELSE FullLightness,
         bestRgb |-> bestRgb,
         bestRatio |-> contrastRatio(rgbToHex(bestRgb), rgbToHex(otherRgb)),
         iterations |-> 0,
         testL |-> originalHsl.l,
         testRatio |-> 0,
         accepted |-> FALSE,
         exited |-> FALSE,
         evaluated |-> <<>>]
searchInit(originalHsl, otherRgb, isLightening) ==
    LET bestRgb == hslToRgb(originalHsl)
    IN  [minL |-> IF isLightening THEN originalHsl.l ELSE 0,
         maxL |-> IF isLightening THEN FullLightness ELSE originalHsl.l,
         bestRgb |-> bestRgb,
         bestRatio |-> contrastRatio(rgbToHex(bestRgb), rgbToHex(otherRgb)),
         iterations |-> 0,
         testL |-> originalHsl.l,
         testRatio |-> 0,
         accepted |-> FALSE,
         exited |-> FALSE,
         evaluated |-> <<>>]

\* The acceptance test of a midpoint.
midpointMeets(testRatio, threshold) == testRatio >= threshold

\* Math.abs(maxL - minL) < 0.1
closeEnoughMutant(minL, maxL) == 10 * Abs(maxL - minL) < FullLightness
closeEnough(minL, maxL) == 1000 * Abs(maxL - minL) < FullLightness

\* One pass through the loop body, including the early-termination test and
\* the loop condition for the next pass.
searchStepMutant(s, originalHsl, otherRgb, threshold, isForeground, isLightening) ==
    LET iterations == s.iterations + 1
        midL == (s.minL + s.maxL) \div 2
        testHsl == [originalHsl EXCEPT !.l = midL]
        testRgb == hslToRgb(testHsl)
        fgRgb == IF isForeground THEN testRgb ELSE otherRgb
        bgRgb == IF isForeground THEN otherRgb ELSE testRgb
        testRatio == contrastRatio(rgbToHex(fgRgb), rgbToHex(bgRgb))
        meets == midpointMeets(testRatio, threshold)
        minL == IF meets
                THEN (IF isLightening THEN s.minL ELSE midL)
                ELSE (IF isLightening THEN midL ELSE s.minL)
        maxL == IF meets
                THEN (IF isLightening THEN midL ELSE s.maxL)
                ELSE (IF isLightening THEN s.maxL ELSE midL)
    IN  [minL |-> minL,
         maxL |-> maxL,
         bestRgb |-> IF meets /\ testRatio > s.bestRatio THEN testRgb ELSE s.bestRgb,
         bestRatio |-> IF meets /\ testRatio > s.bestRatio THEN testRatio ELSE s.bestRatio,
         iterations |-> iterations,
         testL |-> midL,
         testRatio |-> testRatio,
         accepted |-> meets,
         exited |-> closeEnough(minL, maxL) \/ iterations >= maxIterations,
         evaluated |-> Append(s.evaluated,
                              [hsl |-> testHsl, rgb |-> testRgb,
                               fgRgb |-> fgRgb, bgRgb |-> bgRgb,
                               ratio |-> testRatio, met |-> meets])]
searchStep(s, originalHsl, otherRgb, threshold, isForeground, isLightening) ==
    LET iterations == s.iterations + 1
        midL == (s.minL + s.maxL) \div 2
        testHsl == [originalHsl EXCEPT !.l = midL]
        testRgb == hslToRgb(testHsl)
        fgRgb == IF isForeground THEN testRgb ELSE otherRgb
        bgRgb == IF isForeground THEN otherRgb ELSE testRgb
        testRatio == contrastRatio(rgbToHex(fgRgb), rgbToHex(bgRgb))
        meets == midpointMeets(testRatio, threshold)
        minL == IF meets
                THEN (IF isLightening THEN s.minL ELSE midL)
                ELSE (IF isLightening THEN midL ELSE s.minL)
        maxL == IF meets
                THEN (IF isLightening THEN midL ELSE s.maxL)
                ELSE (IF isLightening THEN s.maxL ELSE midL)
    IN  [minL |-> minL,
         maxL |-> maxL,
         bestRgb |-> IF meets THEN testRgb ELSE s.bestRgb,
         bestRatio |-> IF meets THEN testRatio ELSE s.bestRatio,
         iterations |-> iterations,
         testL |-> midL,
         testRatio |-> testRatio,
         accepted |-> meets,
         exited |-> closeEnough(minL, maxL) \/ iterations >= maxIterations,
         evaluated |-> Append(s.evaluated,
                              [hsl |-> testHsl, rgb |-> testRgb,
                               fgRgb |-> fgRgb, bgRgb |-> bgRgb,
                               ratio |-> testRatio, met |-> meets])]

RECURSIVE searchLoop(_, _, _, _, _, _)
searchLoop(s, originalHsl, otherRgb, threshold, isForeground, isLightening) ==
    IF s.exited \/ maxIterations <= 0
    THEN s
    ELSE searchLoop(searchStep(s, originalHsl, otherRgb, threshold,
                               isForeground, isLightening),
                    originalHsl, otherRgb, threshold, isForeground, isLightening)

searchReturn(s) ==
    [rgb |-> s.bestRgb, ratio |-> s.bestRatio, iterations |-> s.iterations]

\* The whole function, as one value.
binarySearchLightness(originalHsl, otherRgb, threshold, isForeground, isLightening) ==
    searchReturn(searchLoop(searchInit(originalHsl, otherRgb, isLightening),
                            originalHsl, otherRgb, threshold,
                            isForeground, isLightening))

\* ---------------------------------------------------- snapToPassingColor
\* The four adjustment paths in the order the candidates array lists them.
Paths == <<[path |-> "fg-lighten", isForeground |-> TRUE,  isLightening |-> TRUE],
           [path |-> "fg-darken",  isForeground |-> TRUE,  isLightening |-> FALSE],
           [path |-> "bg-darken",  isForeground |-> FALSE, isLightening |-> FALSE],
           [path |-> "bg-lighten", isForeground |-> FALSE, isLightening |-> TRUE]>>

\* candidate.path.startsWith('fg')
startsWithFg(path) == path \in {"fg-lighten", "fg-darken"}

\* candidates.filter(c => c.ratio >= (threshold - EPSILON))
passingCandidatesMutant(cands, threshold) == cands
passingCandidatesLooseMutant(cands, threshold) ==
    SelectSeq(cands, LAMBDA c : c.ratio >= threshold - 500 * EPSILON)
passingCandidates(cands, threshold) ==
    SelectSeq(cands, LAMBDA c : c.ratio >= threshold - EPSILON)

\* Math.abs(hsl.l - rgbToHsl(candidate.rgb).l) for the candidate's own side
changeOf(c, fHsl, bHsl) ==
    IF startsWithFg(c.path)
    THEN Abs(fHsl.l - rgbToHsl(c.rgb).l)
    ELSE Abs(bHsl.l - rgbToHsl(c.rgb).l)

\* Array.prototype.sort((a, b) => a.change - b.change): stable, ascending.
RECURSIVE sortByChangeMutant(_)
sortByChangeMutant(seq) ==
    IF Len(seq) <= 1
    THEN seq
    ELSE LET rest == sortByChangeMutant(Tail(seq))
             x == Head(seq)
             before == SelectSeq(rest, LAMBDA y : y.change > x.change)
             after == SelectSeq(rest, LAMBDA y : y.change <= x.change)
         IN  before \o <<x>> \o after
RECURSIVE sortByChange(_)
sortByChange(seq) ==
    IF Len(seq) <= 1
    THEN seq
    ELSE LET rest == sortByChange(Tail(seq))
             x == Head(seq)
             before == SelectSeq(rest, LAMBDA y : y.change < x.change)
             after == SelectSeq(rest, LAMBDA y : y.change >= x.change)
         IN  before \o <<x>> \o after

candidatesWithChange(passing, fHsl, bHsl) ==
    sortByChange([i \in 1..Len(passing) |->
        [rgb |-> passing[i].rgb, ratio |-> passing[i].ratio,
         iterations |-> passing[i].iterations, path |-> passing[i].path,
         change |-> changeOf(passing[i], fHsl, bHsl)]])

\* filter(c => Math.abs(c.change - minChange) <= 0.5)
similarCandidates(withChange) ==
    LET minChange == withChange[1].change
    IN  SelectSeq(withChange,
                  LAMBDA c : 200 * Abs(c.change - minChange) <= FullLightness)

\* bestCandidate before it is assigned (let bestCandidate), and the value of
\* an array access or find that yields undefined.
NoRgb == [r |-> 0, g |-> 0, b |-> 0]
NoCandidate == [rgb |-> NoRgb, ratio |-> 0, iterations |-> 0, path |-> "none"]

\* array[0]
firstOrUndefined(seq) == IF Len(seq) > 0 THEN seq[1] ELSE NoCandidate

\* similarCandidates.find(c => c.path.startsWith(side)) || similarCandidates[0]
findSideMutant(similar, wantFg) ==
    firstOrUndefined(SelectSeq(similar, LAMBDA c : startsWithFg(c.path) = wantFg))
findSideLastMutant(similar, wantFg) ==
    LET hits == SelectSeq(similar, LAMBDA c : startsWithFg(c.path) = wantFg)
    IN  IF Len(hits) > 0 THEN hits[1]
        ELSE IF Len(similar) > 0 THEN similar[Len(similar)] ELSE NoCandidate
findSide(similar, wantFg) ==
    LET hits == SelectSeq(similar, LAMBDA c : startsWithFg(c.path) = wantFg)
    IN  IF Len(hits) > 0 THEN hits[1] ELSE firstOrUndefined(similar)

tieBreakMutant(similar, o) == findSide(similar, TRUE)
tieBreakLockMutant(similar, o) ==
    IF o.lockHue \/ o.lockChroma
    THEN firstOrUndefined(similar)
    ELSE IF Len(similar) > 1 /\ o.preferBackgroundAdjust /\ ~o.preferForegroundAdjust
    THEN findSide(similar, FALSE)
    ELSE findSide(similar, TRUE)
tieBreak(similar, o) ==
    IF Len(similar) > 1
    THEN IF o.preferForegroundAdjust /\ ~o.preferBackgroundAdjust
         THEN findSide(similar, TRUE)
         ELSE IF o.preferBackgroundAdjust /\ ~o.preferForegroundAdjust
         THEN findSide(similar, FALSE)
         ELSE findSide(similar, TRUE)
    ELSE firstOrUndefined(similar)

\* candidates.reduce((best, current) => current.ratio > best.ratio ? current : best)
RECURSIVE reduceBestRatio(_, _)
reduceBestRatio(best, rest) ==
    IF Len(rest) = 0
    THEN best
    ELSE reduceBestRatio(IF Head(rest).ratio > best.ratio THEN Head(rest) ELSE best,
                         Tail(rest))

dropChange(c) ==
    [rgb |-> c.rgb, ratio |-> c.ratio, iterations |-> c.iterations, path |-> c.path]

\* The selection of bestCandidate and clamped.
selectBest(cands, threshold, o, fHsl, bHsl) ==
    LET passing == passingCandidates(cands, threshold)
    IN  IF Len(passing) > 0
        THEN LET similar == similarCandidates(candidatesWithChange(passing, fHsl, bHsl))
             IN  [bestCandidate |-> dropChange(tieBreak(similar, o)), clamped |-> FALSE]
        ELSE [bestCandidate |-> reduceBestRatio(cands[1], Tail(cands)),
              clamped |-> TRUE]

\* The TypeError of bestCandidate.path on an undefined bestCandidate.
undefinedPathError ==
    [error |-> <<"TypeError: Cannot read properties of undefined (reading 'path')">>]

\* The three return statements.
unchangedResultMutant(fRgb, bRgb, ratio) ==
    [fg |-> rgbToHex(fRgb), bg |-> rgbToHex(bRgb), ratio |-> ratio, clamped |-> FALSE]
unchangedResult(fRgb, bRgb, ratio) ==
    [fg |-> rgbToHex(fRgb), bg |-> rgbToHex(bRgb), ratio |-> ratio]

identicalResult(fRgb, bRgb, ratio) ==
    [fg |-> rgbToHex(fRgb), bg |-> rgbToHex(bRgb), ratio |-> ratio, clamped |-> TRUE]

adjustedResultMutant(fRgb, bRgb, best, clamped) ==
    LET newFg == IF startsWithFg(best.path) THEN fRgb ELSE best.rgb
        newBg == IF startsWithFg(best.path) THEN best.rgb ELSE bRgb
    IN  [fg |-> rgbToHex(newFg),
         bg |-> rgbToHex(newBg),
         ratio |-> contrastRatio(rgbToHex(newFg), rgbToHex(newBg)),
         clamped |-> clamped,
         adjusted |-> IF startsWithFg(best.path) THEN "fg" ELSE "bg",
         iterations |-> best.iterations]
adjustedResultStaleRatioMutant(fRgb, bRgb, best, clamped) ==
    LET newFg == IF startsWithFg(best.path) THEN best.rgb ELSE fRgb
        newBg == IF startsWithFg(best.path) THEN bRgb ELSE best.rgb
    IN  [fg |-> rgbToHex(newFg),
         bg |-> rgbToHex(newBg),
         ratio |-> contrastRatio(rgbToHex(fRgb), rgbToHex(bRgb)),
         clamped |-> clamped,
         adjusted |-> IF startsWithFg(best.path) THEN "fg" ELSE "bg",
         iterations |-> best.iterations]
adjustedResult(fRgb, bRgb, best, clamped) ==
    LET newFg == IF startsWithFg(best.path) THEN best.rgb ELSE fRgb
        newBg == IF startsWithFg(best.path) THEN bRgb ELSE best.rgb
    IN  [fg |-> rgbToHex(newFg),
         bg |-> rgbToHex(newBg),
         ratio |-> contrastRatio(rgbToHex(newFg), rgbToHex(newBg)),
         clamped |-> clamped,
         adjusted |-> IF startsWithFg(best.path) THEN "fg" ELSE "bg",
         iterations |-> best.iterations]

\* ------------------------------------------------------------ the inputs
\* Colours a caller may pass, in several spellings (shorthand, lower case,
\* no leading '#'); a call draws from the first ColourCount of them.
PaletteSeq ==
    <<<<"#", "0", "0", "0", "0", "0", "0">>,
      <<"#", "F", "F", "F", "F", "F", "F">>,
      <<"#", "f", "f", "f">>,
      <<"#", "8", "8", "8", "8", "8", "8">>,
      <<"#", "7", "2", "7", "2", "7", "2">>,
      <<"6", "2", "8", "5", "0", "e">>,
      <<"#", "6", "4", "6", "4", "6", "4">>,
      <<"#", "1", "B", "1", "B", "1", "B">>,
      <<"#", "6", "D", "6", "D", "6", "D">>,
      <<"#", "A", "A", "A", "A", "A", "A">>>>

Palette == {PaletteSeq[i] : i \in 1..Min2(ColourCount, Len(PaletteSeq))}

\* Strings hexToRgb rejects.
InvalidHex == {<<"#", "G", "G", "G", "G", "G", "G">>, <<"#", "1", "2", "3", "4", "5">>}

\* Strings handed to hexToRgb on its own: '#', a digit, a lower-case and an
\* upper-case hex letter, and a letter that is no hex digit in either case.
ParseAlphabet == {"#", "0", "c", "E", "g"}

HexStrings == UNION {[1..n -> ParseAlphabet] : n \in 0..MaxHexLen}

\* Channel values handed to rgbToHex on its own, inside and outside [0,255].
WideChannels == {0 - 1, 0, 10, 255, 256, 4096}

WideRgb == [r : WideChannels, g : WideChannels, b : WideChannels]

\* Channel values handed to relativeLuminance on its own: both ends, both
\* sides of the 0.03928 switch (10 / 255 and 11 / 255) and values between.
LuminanceChannels == {0, 1, 10, 11, 12, 64, 127, 128, 200, 254, 255}

LuminanceRgb == [r : LuminanceChannels, g : LuminanceChannels, b : LuminanceChannels]

SnapOptions ==
    [isLargeText : BOOLEAN, uiComponent : BOOLEAN,
     lockHue : BOOLEAN, lockChroma : BOOLEAN,
     preferForegroundAdjust : BOOLEAN, preferBackgroundAdjust : BOOLEAN]

\* -------------------------------------------------------------- the state
VARIABLES
    pc,             \* "idle", "search", "select", "done" or "thrown"
    fgHex, bgHex,   \* the arguments of the call in progress
    opts,
    fgRgb, bgRgb,   \* locals of snapToPassingColor
    threshold,
    currentRatio,
    fgHsl, bgHsl,
    candidates,     \* results of the searches finished so far
    search,         \* locals of the binarySearchLightness call in progress
    bestCandidate,
    evals,          \* contrastRatio evaluations made by the searches
    result,         \* the returned SnapResult, or the thrown error
    guard,          \* locals of the sanitizeThemeTokens call in progress
    staircase       \* the fields of the Staircase object

vars == <<pc, fgHex, bgHex, opts, fgRgb, bgRgb, threshold, currentRatio,
          fgHsl, bgHsl, candidates, search, bestCandidate, evals, result,
          guard, staircase>>

NoHsl == [h |-> 0, s |-> <<0, 1>>, l |-> 0]
NoOptions ==
    [isLargeText |-> FALSE, uiComponent |-> FALSE,
     lockHue |-> FALSE, lockChroma |-> FALSE,
     preferForegroundAdjust |-> FALSE, preferBackgroundAdjust |-> FALSE]
NoSearch ==
    [minL |-> 0, maxL |-> 0, bestRgb |-> NoRgb, bestRatio |-> 0,
     iterations |-> 0, testL |-> 0, testRatio |-> 0,
     accepted |-> FALSE, exited |-> FALSE, evaluated |-> <<>>]
NoResult == [pending |-> TRUE]
NoGuard == [pending |-> TRUE]
NoStaircase == [constructed |-> FALSE]

Init ==
    /\ pc = "idle"
    /\ fgHex = <<>> /\ bgHex = <<>>
    /\ opts = NoOptions
    /\ fgRgb = NoRgb /\ bgRgb = NoRgb
    /\ threshold = 0
    /\ currentRatio = 0
    /\ fgHsl = NoHsl /\ bgHsl = NoHsl
    /\ candidates = <<>>
    /\ search = NoSearch
    /\ bestCandidate = NoCandidate
    /\ evals = 0
    /\ result = NoResult
    /\ guard = NoGuard
    /\ staircase = NoStaircase

\* The hsl and the other colour that candidate search number k works on.
searchHsl(k, fHsl, bHsl) == IF Paths[k].isForeground THEN fHsl ELSE bHsl
searchOtherMutant(k, fRgb, bRgb) == IF Paths[k].isForeground THEN fRgb ELSE bRgb
searchOther(k, fRgb, bRgb) == IF Paths[k].isForeground THEN bRgb ELSE fRgb

\* currentRatio === 1 && threshold > 1
identicalShortcutMutant(ratio, thr) == FALSE
identicalShortcut(ratio, thr) == ratio = RatioOne /\ thr > RatioOne

\* currentRatio >= (threshold - EPSILON)
alreadyPassing(ratio, thr) == ratio >= thr - EPSILON

\* The four candidates of the array literal, each a finished search.
allCandidates(fRgb, bRgb, thr) ==
    LET fHsl == rgbToHsl(fRgb)
        bHsl == rgbToHsl(bRgb)
    IN  [k \in 1..Len(Paths) |->
            LET c == binarySearchLightness(searchHsl(k, fHsl, bHsl),
                                           searchOther(k, fRgb, bRgb), thr,
                                           Paths[k].isForeground,
                                           Paths[k].isLightening)
            IN  [rgb |-> c.rgb, ratio |-> c.ratio, iterations |-> c.iterations,
                 path |-> Paths[k].path]]

\* The return, or the TypeError, that follows the selection sel.
resultOfSelection(fRgb, bRgb, sel) ==
    IF sel.bestCandidate = NoCandidate
    THEN undefinedPathError
    ELSE adjustedResult(fRgb, bRgb, sel.bestCandidate, sel.clamped)

\* The whole function, as one value: the SnapResult it returns or the Error
\* it throws.
snapToPassingColor(fg, bg, o) ==
    IF ~isValidHex(fg) \/ ~isValidHex(bg)
    THEN hexFormatError(IF ~isValidHex(fg) THEN fg ELSE bg)
    ELSE LET fRgb == hexToRgb(fg)
             bRgb == hexToRgb(bg)
             thr == snapThreshold(o)
             ratio == contrastRatio(rgbToHex(fRgb), rgbToHex(bRgb))
         IN  IF alreadyPassing(ratio, thr)
             THEN unchangedResult(fRgb, bRgb, ratio)
             ELSE IF identicalShortcut(ratio, thr)
             THEN identicalResult(fRgb, bRgb, ratio)
             ELSE resultOfSelection(fRgb, bRgb,
                                    selectBest(allCandidates(fRgb, bRgb, thr), thr, o,
                                               rgbToHsl(fRgb), rgbToHsl(bRgb)))

\* snapToPassingColor(fg, bg, o) from its entry to the first return, the
\* throw of hexToRgb, or the start of the first candidate search.
Call(fg, bg, o) ==
    /\ pc = "idle"
    /\ fgHex' = fg /\ bgHex' = bg /\ opts' = o
    /\ IF ~isValidHex(fg) \/ ~isValidHex(bg)
       THEN /\ pc' = "thrown"
            /\ result' = hexFormatError(IF ~isValidHex(fg) THEN fg ELSE bg)
            /\ UNCHANGED <<fgRgb, bgRgb, threshold, currentRatio, fgHsl, bgHsl,
                           candidates, search, bestCandidate, evals>>
       ELSE LET fRgb == hexToRgb(fg)
                bRgb == hexToRgb(bg)
                thr == snapThreshold(o)
                ratio == contrastRatio(rgbToHex(fRgb), rgbToHex(bRgb))
            IN  /\ fgRgb' = fRgb /\ bgRgb' = bRgb
                /\ threshold' = thr
                /\ currentRatio' = ratio
                /\ UNCHANGED <<candidates, bestCandidate>>
                /\ IF alreadyPassing(ratio, thr)
                   THEN /\ pc' = "done"
                        /\ result' = unchangedResult(fRgb, bRgb, ratio)
                        /\ UNCHANGED <<fgHsl, bgHsl, search, evals>>
                   ELSE IF identicalShortcut(ratio, thr)
                   THEN /\ pc' = "done"
                        /\ result' = identicalResult(fRgb, bRgb, ratio)
                        /\ UNCHANGED <<fgHsl, bgHsl, search, evals>>
                   ELSE /\ pc' = "search"
                        /\ fgHsl' = rgbToHsl(fRgb)
                        /\ bgHsl' = rgbToHsl(bRgb)
                        /\ search' = searchInit(searchHsl(1, rgbToHsl(fRgb), rgbToHsl(bRgb)),
                                                searchOther(1, fRgb, bRgb),
                                                Paths[1].isLightening)
                        /\ evals' = 1
                        /\ UNCHANGED result
    /\ UNCHANGED <<guard, staircase>>

\* One iteration of the loop of the candidate search in progress.
SearchIterate ==
    /\ pc = "search"
    /\ ~search.exited
    /\ maxIterations > 0
    /\ LET k == Len(candidates) + 1
       IN  search' = searchStep(search, searchHsl(k, fgHsl, bgHsl),
                                searchOther(k, fgRgb, bgRgb), threshold,
                                Paths[k].isForeground, Paths[k].isLightening)
    /\ evals' = evals + 1
    /\ UNCHANGED <<pc, fgHex, bgHex, opts, fgRgb, bgRgb, threshold, currentRatio,
                   fgHsl, bgHsl, candidates, bestCandidate, result>>
    /\ UNCHANGED <<guard, staircase>>

\* The search in progress returns; the next array element starts its search,
\* or the array is complete.
SearchReturn ==
    /\ pc = "search"
    /\ search.exited \/ maxIterations <= 0
    /\ LET k == Len(candidates) + 1
           c == searchReturn(search)
       IN  /\ candidates' = Append(candidates,
                                   [rgb |-> c.rgb, ratio |-> c.ratio,
                                    iterations |-> c.iterations,
                                    path |-> Paths[k].path])
           /\ IF k = Len(Paths)
              THEN /\ pc' = "select"
                   /\ UNCHANGED <<search, evals>>
              ELSE /\ pc' = "search"
                   /\ search' = searchInit(searchHsl(k + 1, fgHsl, bgHsl),
                                           searchOther(k + 1, fgRgb, bgRgb),
                                           Paths[k + 1].isLightening)
                   /\ evals' = evals + 1
    /\ UNCHANGED <<fgHex, bgHex, opts, fgRgb, bgRgb, threshold, currentRatio,
                   fgHsl, bgHsl, bestCandidate, result>>
    /\ UNCHANGED <<guard, staircase>>

\* Selection among the four candidates, application and return.  Reading
\* bestCandidate.path of an undefined bestCandidate throws a TypeError.
Select ==
    /\ pc = "select"
    /\ LET sel == selectBest(candidates, threshold, opts, fgHsl, bgHsl)
       IN  /\ bestCandidate' = sel.bestCandidate
           /\ IF sel.bestCandidate = NoCandidate
              THEN /\ pc' = "thrown"
                   /\ result' = undefinedPathError
              ELSE /\ pc' = "done"
                   /\ result' = adjustedResult(fgRgb, bgRgb, sel.bestCandidate,
                                               sel.clamped)
    /\ UNCHANGED <<fgHex, bgHex, opts, fgRgb, bgRgb, threshold, currentRatio,
                   fgHsl, bgHsl, candidates, search, evals>>
    /\ UNCHANGED <<guard, staircase>>

\* hexToRgb(hex) on its own, as relativeLuminance and contrastRatio call it
\* on a string argument: the RGB value, or the Error thrown.
HexToRgb(hex) ==
    /\ pc = "idle"
    /\ fgHex' = hex
    /\ IF isValidHex(hex)
       THEN /\ pc' = "parsed"
            /\ fgRgb' = hexToRgb(hex)
            /\ result' = [rgb |-> hexToRgb(hex)]
       ELSE /\ pc' = "thrown"
            /\ fgRgb' = fgRgb
            /\ result' = hexFormatError(hex)
    /\ UNCHANGED <<bgHex, opts, bgRgb, threshold, currentRatio, fgHsl, bgHsl,
                   candidates, search, bestCandidate, evals>>
    /\ UNCHANGED <<guard, staircase>>

\* rgbToHex(rgb) on its own, for any integer channel values.
RgbToHex(rgb) ==
    /\ pc = "idle"
    /\ fgRgb' = rgb
    /\ result' = [hex |-> rgbToHex(rgb)]
    /\ pc' = "formatted"
    /\ UNCHANGED <<fgHex, bgHex, opts, bgRgb, threshold, currentRatio, fgHsl,
                   bgHsl, candidates, search, bestCandidate, evals>>
    /\ UNCHANGED <<guard, staircase>>

\* relativeLuminance(rgb) on its own, for an RGB object.
RelativeLuminance(rgb) ==
    /\ pc = "idle"
    /\ fgRgb' = rgb
    /\ result' = [luminance |-> relativeLuminance(rgb)]
    /\ pc' = "measured"
    /\ UNCHANGED <<fgHex, bgHex, opts, bgRgb, threshold, currentRatio, fgHsl,
                   bgHsl, candidates, search, bestCandidate, evals>>
    /\ UNCHANGED <<guard, staircase>>

\* The caller has the result (or the error); nothing of the call survives.
Return ==
    /\ pc \in {"done", "thrown", "parsed", "formatted", "measured"}
    /\ pc' = "idle"
    /\ fgHex' = <<>> /\ bgHex' = <<>>
    /\ opts' = NoOptions
    /\ fgRgb' = NoRgb /\ bgRgb' = NoRgb
    /\ threshold' = 0
    /\ currentRatio' = 0
    /\ fgHsl' = NoHsl /\ bgHsl' = NoHsl
    /\ candidates' = <<>>
    /\ search' = NoSearch
    /\ bestCandidate' = NoCandidate
    /\ evals' = 0
    /\ result' = NoResult
    /\ UNCHANGED <<guard, staircase>>

Next ==
    \/ (pc = "idle" /\ \E fg \in Palette \cup InvalidHex,
                           bg \in Palette \cup InvalidHex,
                           o \in SnapOptions : Call(fg, bg, o))
    \/ SearchIterate
    \/ SearchReturn
    \/ Select
    \/ Return

Spec == Init /\ [][Next]_vars

\* Hex parsing alone, over every string of at most MaxHexLen characters of
\* ParseAlphabet.
ParseNext ==
    \/ (pc = "idle" /\ \E hex \in HexStrings : HexToRgb(hex))
    \/ Return

ParseSpec == Init /\ [][ParseNext]_vars

\* The snapping engine together with hex formatting of channel values that
\* the conversions of the engine never produce.
FormatNext ==
    \/ Next
    \/ (pc = "idle" /\ \E rgb \in WideRgb : RgbToHex(rgb))

FormatSpec == Init /\ [][FormatNext]_vars

\* relativeLuminance alone, over the RGB objects of LuminanceRgb.
LuminanceNext ==
    \/ (pc = "idle" /\ \E rgb \in LuminanceRgb : RelativeLuminance(rgb))
    \/ Return

LuminanceSpec == Init /\ [][LuminanceNext]_vars

\* ------------------------------------------------------------ the Staircase
\* Levels and steps are in units of 1/LevelOne; factors are fractions
\* <<numerator, denominator>>.
LevelOne == 12000
TrialBound == 6

\* targetPercent === null
NullPercent == <<0, 1>>

StaircaseLevels == {0, 600, 6000, LevelOne}
StaircaseSteps == {600, 9000}
StaircaseRules ==
    {[downAfter |-> 1, upAfter |-> 1], [downAfter |-> 2, upAfter |-> 1],
     [downAfter |-> 3, upAfter |-> 1], [downAfter |-> 1, upAfter |-> 2],
     [downAfter |-> 2, upAfter |-> 2]}
CoarseThresholds == {1, 6}
FineFactors == {<<1, 2>>}
TargetPercents == {NullPercent, <<3, 4>>}

\* The constructor.  maxTrials, minReversals, discardReversals and
\* useGeometricMean are stored by it and read by neither update nor
\* changeLevel; stepped is the trace of the trials: the direction of the
\* changeLevel call a trial made, or "none".
newStaircase(initialLevel, stepUp, stepDown, rule, useAsymmetricSteps, coarseThreshold, fineFactor, targetPercent) ==
    LET weighted ==
            IF targetPercent # NullPercent /\ targetPercent[1] > 0
               /\ targetPercent[1] < targetPercent[2]
            THEN (stepUp * (targetPercent[2] - targetPercent[1])) \div targetPercent[1]
            ELSE stepDown
        asymmetric == IF useAsymmetricSteps THEN (weighted * 6) \div 5 ELSE weighted
    IN  [constructed |-> TRUE,
         currentLevel |-> initialLevel,
         stepUp |-> stepUp,
         stepDown |-> asymmetric,
         rule |-> rule,
         reversals |-> <<>>,
         trialHistory |-> <<>>,
         consecutiveCorrect |-> 0,
         consecutiveIncorrect |-> 0,
         lastDirection |-> "null",
         trialCount |-> 0,
         coarseThreshold |-> coarseThreshold,
         fineFactor |-> fineFactor,
         targetPercent |-> targetPercent,
         stepped |-> <<>>]

getStepSize(s, direction) ==
    LET baseStep == IF direction = "up" THEN s.stepUp ELSE s.stepDown
    IN  IF Len(s.reversals) < s.coarseThreshold
        THEN baseStep
        ELSE IF 10 * s.currentLevel < LevelOne
        THEN (baseStep * s.fineFactor[1]) \div (s.fineFactor[2] * 2)
        ELSE (baseStep * s.fineFactor[1]) \div s.fineFactor[2]

clampLevelMutant(level) == level
\* Math.max(0, Math.min(1, this.currentLevel))
clampLevel(level) == Max2(0, Min2(LevelOne, level))

changeLevel(s, direction) ==
    LET previousDirection == s.lastDirection
        pushed == [s EXCEPT !.lastDirection = direction,
                            !.reversals =
                                IF previousDirection # "null"
                                   /\ previousDirection # direction
                                THEN Append(@, s.currentLevel)
                                ELSE @]
        stepSize == getStepSize(pushed, direction)
        moved == IF direction = "up"
                 THEN pushed.currentLevel + stepSize
                 ELSE pushed.currentLevel - stepSize
    IN  [pushed EXCEPT !.currentLevel = clampLevel(moved),
                       !.consecutiveCorrect = 0,
                       !.consecutiveIncorrect = 0,
                       !.stepped = Append(@, direction)]

\* The counters of update after the response is counted.
countResponseMutant(s, responseCorrect) ==
    IF responseCorrect
    THEN [s EXCEPT !.consecutiveCorrect = @ + 1]
    ELSE [s EXCEPT !.consecutiveIncorrect = @ + 1]
countResponse(s, responseCorrect) ==
    IF responseCorrect
    THEN [s EXCEPT !.consecutiveCorrect = @ + 1, !.consecutiveIncorrect = 0]
    ELSE [s EXCEPT !.consecutiveIncorrect = @ + 1, !.consecutiveCorrect = 0]

update(s, responseCorrect) ==
    LET pushed == [s EXCEPT !.trialCount = @ + 1,
                            !.trialHistory =
                                Append(@, [level |-> s.currentLevel,
                                           correct |-> responseCorrect])]
        counted == countResponse(pushed, responseCorrect)
    IN  IF responseCorrect
        THEN IF counted.consecutiveCorrect >= counted.rule.downAfter
             THEN changeLevel(counted, "down")
             ELSE [counted EXCEPT !.stepped = Append(@, "none")]
        ELSE IF counted.consecutiveIncorrect >= counted.rule.upAfter
             THEN changeLevel(counted, "up")
             ELSE [counted EXCEPT !.stepped = Append(@, "none")]

snapVars == <<pc, fgHex, bgHex, opts, fgRgb, bgRgb, threshold, currentRatio,
              fgHsl, bgHsl, candidates, search, bestCandidate, evals, result>>

NewStaircase(initialLevel, stepUp, stepDown, rule, useAsymmetricSteps, coarseThreshold, fineFactor, targetPercent) ==
    /\ pc = "idle"
    /\ ~staircase.constructed
    /\ staircase' = newStaircase(initialLevel, stepUp, stepDown, rule,
                                 useAsymmetricSteps, coarseThreshold, fineFactor,
                                 targetPercent)
    /\ UNCHANGED <<snapVars, guard>>

Update(responseCorrect) ==
    /\ pc = "idle"
    /\ staircase.constructed
    /\ staircase.trialCount < TrialBound
    /\ staircase' = update(staircase, responseCorrect)
    /\ UNCHANGED <<snapVars, guard>>

\* One Staircase, from its construction, under every sequence of at most
\* TrialBound responses.
StaircaseNext ==
    \/ (~staircase.constructed
        /\ \E initialLevel \in StaircaseLevels, stepUp \in StaircaseSteps,
              stepDown \in StaircaseSteps, rule \in StaircaseRules,
              useAsymmetricSteps \in BOOLEAN, coarseThreshold \in CoarseThresholds,
              fineFactor \in FineFactors, targetPercent \in TargetPercents :
                NewStaircase(initialLevel, stepUp, stepDown, rule,
                             useAsymmetricSteps, coarseThreshold, fineFactor,
                             targetPercent))
    \/ (staircase.constructed /\ \E responseCorrect \in BOOLEAN : Update(responseCorrect))

StaircaseSpec == Init /\ [][StaircaseNext]_vars

\* ---------------------------------------------------------- the theme guard
\* A ColorTokenSet is a function from TokenNames to hex strings, <<>> for a
\* name that is not a key of the object.
SEMANTIC_PAIRS ==
    <<[fg |-> "--text-primary", bg |-> "--bg-primary", threshold |-> 4500000, type |-> "normal-text"],
      [fg |-> "--text-secondary", bg |-> "--bg-primary", threshold |-> 4500000, type |-> "normal-text"],
      [fg |-> "--text-tertiary", bg |-> "--bg-primary", threshold |-> 4500000, type |-> "normal-text"],
      [fg |-> "--text-heading", bg |-> "--bg-primary", threshold |-> 3000000, type |-> "large-text"],
      [fg |-> "--text-title", bg |-> "--bg-primary", threshold |-> 3000000, type |-> "large-text"],
      [fg |-> "--border-primary", bg |-> "--bg-primary", threshold |-> 3000000, type |-> "ui-component"],
      [fg |-> "--border-secondary", bg |-> "--bg-primary", threshold |-> 3000000, type |-> "ui-component"],
      [fg |-> "--icon-primary", bg |-> "--bg-primary", threshold |-> 3000000, type |-> "ui-component"],
      [fg |-> "--icon-secondary", bg |-> "--bg-primary", threshold |-> 3000000, type |-> "ui-component"],
      [fg |-> "--focus-ring", bg |-> "--bg-primary", threshold |-> 3000000, type |-> "focus-indicator"],
      [fg |-> "--focus-ring", bg |-> "--bg-secondary", threshold |-> 3000000, type |-> "focus-indicator"],
      [fg |-> "--focus-ring", bg |-> "--bg-button", threshold |-> 3000000, type |-> "focus-indicator"],
      [fg |-> "--focus-ring", bg |-> "--bg-button-hover", threshold |-> 3000000, type |-> "focus-indicator"],
      [fg |-> "--focus-ring-inset", bg |-> "--bg-button", threshold |-> 3000000, type |-> "focus-indicator"],
      [fg |-> "--focus-ring-inset", bg |-> "--bg-button-hover", threshold |-> 3000000, type |-> "focus-indicator"],
      [fg |-> "--focus-ring-inset", bg |-> "--bg-button-active", threshold |-> 3000000, type |-> "focus-indicator"],
      [fg |-> "--focus-ring-inset", bg |-> "--bg-input", threshold |-> 3000000, type |-> "focus-indicator"],
      [fg |-> "--focus-ring-outset", bg |-> "--bg-primary", threshold |-> 3000000, type |-> "focus-indicator"],
      [fg |-> "--focus-ring-outset", bg |-> "--bg-secondary", threshold |-> 3000000, type |-> "focus-indicator"],
      [fg |-> "--focus-ring-outset", bg |-> "--bg-container", threshold |-> 3000000, type |-> "focus-indicator"],
      [fg |-> "--text-primary", bg |-> "--bg-button", threshold |-> 4500000, type |-> "normal-text"],
      [fg |-> "--text-primary", bg |-> "--bg-button-hover", threshold |-> 4500000, type |-> "normal-text"],
      [fg |-> "--text-primary", bg |-> "--bg-button-active", threshold |-> 4500000, type |-> "normal-text"]>>

componentBackgrounds ==
    <<"--bg-button", "--bg-button-hover", "--bg-button-active", "--bg-input",
      "--bg-card", "--bg-modal", "--bg-select", "--bg-checkbox", "--bg-radio",
      "--bg-toggle">>
pageBackgrounds ==
    <<"--bg-primary", "--bg-secondary", "--bg-container", "--bg-page", "--bg-body",
      "--bg-main", "--bg-content", "--bg-sidebar", "--bg-header", "--bg-footer">>
ancestorBackgrounds == <<"--bg-primary", "--bg-secondary", "--bg-container", "--bg-page">>

Range(seq) == {seq[i] : i \in 1..Len(seq)}

TokenNames ==
    {SEMANTIC_PAIRS[i].fg : i \in 1..Len(SEMANTIC_PAIRS)}
    \cup {SEMANTIC_PAIRS[i].bg : i \in 1..Len(SEMANTIC_PAIRS)}
    \cup Range(componentBackgrounds) \cup Range(pageBackgrounds)

\* The names of TokenNames that contain the substring: key.includes(...)
keysIncluding(substring) ==
    IF substring = "focus-ring-inset" THEN {"--focus-ring-inset"}
    ELSE IF substring = "focus-ring-outset" THEN {"--focus-ring-outset"}
    ELSE IF substring = "focus-ring"
    THEN {"--focus-ring", "--focus-ring-inset", "--focus-ring-outset"}
    ELSE {}

\* Object.keys(tokens)
keysOf(tokens) == {name \in TokenNames : tokens[name] # <<>>}

\* None of the exempt patterns (logo, brand, mark, decorative, accent, ...)
\* matches a name of TokenNames.
isExemptFromTextContrast(tokenName) == FALSE

\* The pairs pushed for one focus-ring token: one per background present, in
\* the order of the list.
RECURSIVE pairsAgainst(_, _, _, _)
pairsAgainst(tokens, fgName, backgrounds, i) ==
    IF i > Len(backgrounds) THEN <<>>
    ELSE (IF tokens[backgrounds[i]] # <<>>
          THEN <<[fg |-> fgName, bg |-> backgrounds[i], threshold |-> 3000000,
                  type |-> "focus-indicator"]>>
          ELSE <<>>) \o pairsAgainst(tokens, fgName, backgrounds, i + 1)

\* The first ancestor background present, '--bg-primary' if there is none.
fallbackBg(tokens) ==
    LET present == {i \in 1..Len(ancestorBackgrounds) : tokens[ancestorBackgrounds[i]] # <<>>}
    IN  IF present = {} THEN "--bg-primary"
        ELSE ancestorBackgrounds[CHOOSE i \in present : \A j \in present : i <= j]

validateFocusRings(tokens) ==
    LET hasInset == keysOf(tokens) \cap keysIncluding("focus-ring-inset") # {}
        hasOutset == keysOf(tokens) \cap keysIncluding("focus-ring-outset") # {}
        insetFound == pairsAgainst(tokens, "--focus-ring-inset", componentBackgrounds, 1)
        outsetFound == pairsAgainst(tokens, "--focus-ring-outset", pageBackgrounds, 1)
        fallbackPair(fgName) ==
            <<[fg |-> fgName, bg |-> fallbackBg(tokens), threshold |-> 3000000,
               type |-> "focus-indicator"]>>
        insetPairs == IF ~hasInset THEN <<>>
                      ELSE IF insetFound # <<>> THEN insetFound
                      ELSE fallbackPair("--focus-ring-inset")
        outsetPairs == IF ~hasOutset THEN <<>>
                       ELSE IF outsetFound # <<>> THEN outsetFound
                       ELSE fallbackPair("--focus-ring-outset")
        insetWarning == IF hasInset /\ insetFound = <<>>
                        THEN <<<<"WCAG 1.4.11: No component backgrounds found", fallbackBg(tokens)>>>>
                        ELSE <<>>
        outsetWarning == IF hasOutset /\ outsetFound = <<>>
                         THEN <<<<"WCAG 1.4.11: No page backgrounds found", fallbackBg(tokens)>>>>
                         ELSE <<>>
        variantWarning == IF ~hasInset /\ ~hasOutset
                             /\ keysOf(tokens) \cap keysIncluding("focus-ring") # {}
                          THEN <<<<"WCAG 2.4.7: Focus ring token found but no inset/outset variants">>>>
                          ELSE <<>>
    IN  [insetValidated |-> hasInset,
         outsetValidated |-> hasOutset,
         warnings |-> insetWarning \o outsetWarning \o variantWarning,
         additionalPairs |-> insetPairs \o outsetPairs]

\* isLargeTextFromCSS of contrast.ts, font sizes in hundredths of a pixel.
isLargeTextFromCSS(fontSizePx, fontWeight) ==
    LET isBold == fontWeight >= 600
        largeTextThreshold == IF isBold THEN 1866 ELSE 2400
    IN  100 * fontSizePx >= largeTextThreshold

\* largeTextContext is undefined
NoContext == [provided |-> FALSE, fontSize |-> 0, fontWeight |-> 0]

\* x || fallback for a number
orDefault(x, fallback) == IF x = 0 THEN fallback ELSE x

isTextType(type) == type = "normal-text" \/ type = "large-text"
isComponentType(type) == type = "ui-component" \/ type = "focus-indicator"

\* The threshold written into the log and into the FAILED message.
thresholdUsedOf(isLargeText) == IF isLargeText THEN 3000000 ELSE 4500000

\* isLargeText and wasEvaluatedAsLarge of the iteration for the pair.
largeTextOf(pair, o) ==
    LET detectedAsLarge ==
            /\ o.largeTextContext.provided
            /\ isTextType(pair.type)
            /\ isLargeTextFromCSS(orDefault(o.largeTextContext.fontSize, 16),
                                  orDefault(o.largeTextContext.fontWeight, 400))
    IN  [isLargeText |-> pair.type = "large-text" \/ detectedAsLarge,
         wasEvaluatedAsLarge |-> detectedAsLarge]

\* The iteration ends at one of the two `continue` statements.
pairSkipped(g, pair) ==
    \/ g.sanitizedTokens[pair.fg] = <<>>
    \/ g.sanitizedTokens[pair.bg] = <<>>
    \/ (isTextType(pair.type) /\ isExemptFromTextContrast(pair.fg))

\* const passes = passesContrast(fgValue, bgValue, {...})
pairPasses(g, pair, o) ==
    passesContrast(g.sanitizedTokens[pair.fg], g.sanitizedTokens[pair.bg],
                   [isLargeText |-> largeTextOf(pair, o).isLargeText,
                    uiComponent |-> isComponentType(pair.type)])

\* The options of the snapToPassingColor call of the iteration.
snapOptionsOf(pair, o) ==
    [isLargeText |-> largeTextOf(pair, o).isLargeText,
     uiComponent |-> isComponentType(pair.type),
     lockHue |-> FALSE, lockChroma |-> FALSE,
     preferForegroundAdjust |-> o.preferForegroundAdjust,
     preferBackgroundAdjust |-> o.preferBackgroundAdjust]

\* The body of `if (!passes)`, on the locals g of the call.
fixViolation(g, pair, o, snapResult) ==
    LET fgValue == g.sanitizedTokens[pair.fg]
        bgValue == g.sanitizedTokens[pair.bg]
        isLargeText == largeTextOf(pair, o).isLargeText
        clamped == "clamped" \in DOMAIN snapResult /\ snapResult.clamped
        adjusted == IF "adjusted" \in DOMAIN snapResult THEN snapResult.adjusted ELSE "undefined"
        violation == <<pair.fg, "on", pair.bg, pair.type>>
        failed == <<pair.fg, "on", pair.bg, "FAILED", snapResult.ratio,
                    thresholdUsedOf(isLargeText)>>
        log == [original |-> <<fgValue, "on", bgValue>>,
                adjusted |-> <<snapResult.fg, "on", snapResult.bg>>,
                ratio |-> snapResult.ratio,
                clamped |-> clamped,
                adjustedColor |-> IF adjusted = "undefined" THEN "fg" ELSE adjusted,
                semanticPair |-> <<pair.fg, "vs", pair.bg>>,
                thresholdUsed |-> thresholdUsedOf(isLargeText),
                thresholdType |-> pair.type,
                largeTextDetected |-> largeTextOf(pair, o).wasEvaluatedAsLarge]
    IN  [g EXCEPT
            !.violations = IF clamped THEN @ \o <<violation, failed>>
                           ELSE Append(@, violation),
            !.clampedCount = IF clamped THEN @ + 1 ELSE @,
            !.sanitizedTokens =
                IF adjusted = "fg" THEN [@ EXCEPT ![pair.fg] = snapResult.fg]
                ELSE IF adjusted = "bg" THEN [@ EXCEPT ![pair.bg] = snapResult.bg]
                ELSE @,
            !.adjustments = IF o.logAdjustments THEN Append(@, log) ELSE @]

\* One iteration of the loop over allPairs, on the locals g of the call.
checkPair(g, pair, o, snapResult) ==
    LET detected ==
            IF largeTextOf(pair, o).wasEvaluatedAsLarge
            THEN [g EXCEPT !.pairsEvaluatedAsLarge = Append(@, <<pair.fg, "vs", pair.bg>>)]
            ELSE g
    IN  IF g.sanitizedTokens[pair.fg] = <<>> \/ g.sanitizedTokens[pair.bg] = <<>>
        THEN g
        ELSE IF isTextType(pair.type) /\ isExemptFromTextContrast(pair.fg)
        THEN [g EXCEPT !.exemptTokens = Append(@, pair.fg)]
        ELSE IF pairPasses(g, pair, o)
        THEN detected
        ELSE fixViolation(detected, pair, o, snapResult)

statusOf(violations, clampedCount) ==
    IF Len(violations) = 0 THEN "pass"
    ELSE IF clampedCount = 0 THEN "warnings"
    ELSE "fail"

\* The ThemeGuardResult returned under bypassGuard.
bypassResult(tokens) ==
    [sanitizedTokens |-> tokens, adjustments |-> <<>>, violations |-> <<>>,
     applied |-> TRUE, status |-> "pass",
     summary |-> [totalChecks |-> 0, violations |-> 0, adjustments |-> 0, clamped |-> 0],
     focusRingValidation |-> [insetValidated |-> FALSE, outsetValidated |-> FALSE,
                              warnings |-> <<>>],
     pairsEvaluatedAsLarge |-> <<>>,
     exemptTokens |-> <<>>]

\* The ThemeGuardResult returned after the loop.
guardResult(g, allPairs, focusRingValidation) ==
    [sanitizedTokens |-> g.sanitizedTokens,
     adjustments |-> g.adjustments,
     violations |-> g.violations,
     applied |-> TRUE,
     status |-> statusOf(g.violations, g.clampedCount),
     summary |-> [totalChecks |-> Len(allPairs),
                  violations |-> Len(g.violations),
                  adjustments |-> Len(g.adjustments),
                  clamped |-> g.clampedCount],
     focusRingValidation |->
         [insetValidated |-> focusRingValidation.insetValidated,
          outsetValidated |-> focusRingValidation.outsetValidated,
          warnings |-> focusRingValidation.warnings],
     pairsEvaluatedAsLarge |-> g.pairsEvaluatedAsLarge,
     exemptTokens |-> g.exemptTokens]

\* The token sets and options of the calls.
GuardColours ==
    {<<"#", "8", "8", "8", "8", "8", "8">>, <<"#", "0", "0", "0", "0", "0", "0">>,
     <<"#", "A", "A", "A", "A", "A", "A">>}
GuardTokenNames ==
    {"--text-primary", "--bg-primary", "--border-primary", "--bg-button",
     "--focus-ring-inset"}
GuardChoices ==
    [name \in GuardTokenNames |->
        IF name = "--text-primary"
        THEN {<<"#", "8", "8", "8", "8", "8", "8">>, <<"#", "0", "0", "0", "0", "0", "0">>}
        ELSE IF name = "--bg-primary"
        THEN {<<"#", "0", "0", "0", "0", "0", "0">>, <<"#", "8", "8", "8", "8", "8", "8">>}
        ELSE IF name = "--border-primary"
        THEN {<<"#", "A", "A", "A", "A", "A", "A">>, <<"#", "0", "0", "0", "0", "0", "0">>}
        ELSE {<<"#", "A", "A", "A", "A", "A", "A">>, <<"#", "8", "8", "8", "8", "8", "8">>}]
GuardTokenSets ==
    {[name \in TokenNames |-> IF name \in GuardTokenNames THEN chosen[name] ELSE <<>>] :
        chosen \in {f \in [GuardTokenNames -> GuardColours \cup {<<>>}] :
                        \A name \in GuardTokenNames : f[name] \in GuardChoices[name] \cup {<<>>}}}
LargeRegular == [provided |-> TRUE, fontSize |-> 24, fontWeight |-> 400]
GuardContexts ==
    {NoContext, LargeRegular,
     [provided |-> TRUE, fontSize |-> 19, fontWeight |-> 700],
     [provided |-> TRUE, fontSize |-> 19, fontWeight |-> 0]}
GuardOptions ==
    {[bypassGuard |-> FALSE, logAdjustments |-> TRUE, largeTextContext |-> ctx,
      preferForegroundAdjust |-> FALSE, preferBackgroundAdjust |-> FALSE] :
        ctx \in GuardContexts}
    \cup {[bypassGuard |-> bypass, logAdjustments |-> ~bypass, largeTextContext |-> NoContext,
           preferForegroundAdjust |-> FALSE, preferBackgroundAdjust |-> ~bypass] :
            bypass \in BOOLEAN}
    \cup {[bypassGuard |-> FALSE, logAdjustments |-> FALSE, largeTextContext |-> NoContext,
           preferForegroundAdjust |-> FALSE, preferBackgroundAdjust |-> FALSE]}

\* The locals of a sanitizeThemeTokens call at the start of its loop.
guardStart(tokens, o) ==
    [tokens |-> tokens, options |-> o,
     focusRingValidation |-> validateFocusRings(tokens),
     allPairs |-> SEMANTIC_PAIRS \o validateFocusRings(tokens).additionalPairs,
     index |-> 1,
     locals |-> [sanitizedTokens |-> tokens, adjustments |-> <<>>,
                 violations |-> <<>>, clampedCount |-> 0,
                 pairsEvaluatedAsLarge |-> <<>>, exemptTokens |-> <<>>]]

\* The loop of a sanitizeThemeTokens call is between two iterations.
InLoop == pc = "idle" /\ guard # NoGuard
currentPair == guard.allPairs[guard.index]

\* sanitizeThemeTokens(tokens, options), from its entry to the bypass return
\* or to the start of the loop; tokens hold valid hex colours.
Sanitize(tokens, o) ==
    /\ pc = "idle"
    /\ guard = NoGuard
    /\ guard' = guardStart(tokens, o)
    /\ IF o.bypassGuard
       THEN pc' = "sanitized" /\ result' = bypassResult(tokens)
       ELSE UNCHANGED <<pc, result>>
    /\ UNCHANGED <<fgHex, bgHex, opts, fgRgb, bgRgb, threshold, currentRatio,
                   fgHsl, bgHsl, candidates, search, bestCandidate, evals,
                   staircase>>

\* An iteration that ends at a `continue` or finds that the pair passes.
CheckPair ==
    /\ InLoop
    /\ guard.index <= Len(guard.allPairs)
    /\ IF pairSkipped(guard.locals, currentPair)
       THEN TRUE
       ELSE pairPasses(guard.locals, currentPair, guard.options)
    /\ guard' = [guard EXCEPT
                    !.locals = checkPair(@, currentPair, guard.options, NoResult),
                    !.index = @ + 1]
    /\ UNCHANGED <<snapVars, staircase>>

\* An iteration that finds a violation, up to its call of snapToPassingColor;
\* the call runs as SearchIterate, SearchReturn and Select.
SnapPair ==
    /\ InLoop
    /\ guard.index <= Len(guard.allPairs)
    /\ ~pairSkipped(guard.locals, currentPair)
    /\ ~pairPasses(guard.locals, currentPair, guard.options)
    /\ Call(guard.locals.sanitizedTokens[currentPair.fg],
            guard.locals.sanitizedTokens[currentPair.bg],
            snapOptionsOf(currentPair, guard.options))

\* The rest of that iteration, from the return of snapToPassingColor.
ApplySnap ==
    /\ pc = "done"
    /\ guard # NoGuard
    /\ guard' = [guard EXCEPT
                    !.locals = checkPair(@, currentPair, guard.options, result),
                    !.index = @ + 1]
    /\ pc' = "idle"
    /\ fgHex' = <<>> /\ bgHex' = <<>>
    /\ opts' = NoOptions
    /\ fgRgb' = NoRgb /\ bgRgb' = NoRgb
    /\ threshold' = 0
    /\ currentRatio' = 0
    /\ fgHsl' = NoHsl /\ bgHsl' = NoHsl
    /\ candidates' = <<>>
    /\ search' = NoSearch
    /\ bestCandidate' = NoCandidate
    /\ evals' = 0
    /\ result' = NoResult
    /\ UNCHANGED staircase

\* The status and the return after the loop.
Finish ==
    /\ InLoop
    /\ guard.index > Len(guard.allPairs)
    /\ pc' = "sanitized"
    /\ result' = guardResult(guard.locals, guard.allPairs, guard.focusRingValidation)
    /\ UNCHANGED <<fgHex, bgHex, opts, fgRgb, bgRgb, threshold, currentRatio,
                   fgHsl, bgHsl, candidates, search, bestCandidate, evals, guard,
                   staircase>>

\* The caller has the ThemeGuardResult.
GuardReturn ==
    /\ pc = "sanitized"
    /\ pc' = "idle"
    /\ guard' = NoGuard
    /\ result' = NoResult
    /\ UNCHANGED <<fgHex, bgHex, opts, fgRgb, bgRgb, threshold, currentRatio,
                   fgHsl, bgHsl, candidates, search, bestCandidate, evals,
                   staircase>>

\* sanitizeThemeTokens with the snapToPassingColor calls it makes.
GuardNext ==
    \/ (pc = "idle" /\ guard = NoGuard
        /\ \E tokens \in GuardTokenSets, o \in GuardOptions : Sanitize(tokens, o))
    \/ CheckPair
    \/ SnapPair
    \/ SearchIterate
    \/ SearchReturn
    \/ Select
    \/ ApplySnap
    \/ Finish
    \/ GuardReturn

GuardSpec == Init /\ [][GuardNext]_vars

TypeOK ==
    /\ pc \in {"idle", "search", "select", "done", "thrown", "parsed", "formatted",
               "measured", "sanitized"}
    /\ evals \in 0..40
    /\ Len(candidates) \in 0..4

\* ------------------------------------------------- vocabulary of the claims
\* '#' + six upper-case digits naming the colour that hex spells.
canonicalHex(hex) ==
    LET c == cleanHexOf(hex)
    IN  IF Len(c) = 3
        THEN <<"#", c[1], c[1], c[2], c[2], c[3], c[3]>>
        ELSE <<"#">> \o c

\* The threshold the options ask for, in millionths.
thresholdOf(o) == IF o.isLargeText \/ o.uiComponent THEN 3000000 ELSE 4500000

\* A SnapResult has been returned.
Returned == pc = "done"

\* ... and it came out of the candidate searches.
ReturnedFromSearch == pc = "done" /\ "adjusted" \in DOMAIN result

ResultClamped == "clamped" \in DOMAIN result /\ result.clamped

\* Index sets over the candidates array (canonical order 1..4).
PassingSet == {k \in 1..Len(candidates) : candidates[k].ratio >= thresholdOf(opts) - 1000}

ChangeAt(k) == changeOf(candidates[k], fgHsl, bgHsl)

MinPassingChange ==
    CHOOSE m \in {ChangeAt(k) : k \in PassingSet} :
        \A k \in PassingSet : m <= ChangeAt(k)

\* passing candidates within 0.5 lightness units of the minimum change
TieZone == {k \in PassingSet : 200 * (ChangeAt(k) - MinPassingChange) <= FullLightness}

SideIsFg(k) == candidates[k].path \in {"fg-lighten", "fg-darken"}

PreferredIsFg == ~(opts.preferBackgroundAdjust /\ ~opts.preferForegroundAdjust)

\* index of the selected candidate
BestIndex == CHOOSE k \in 1..4 : candidates[k].path = bestCandidate.path

\* ------------------------------------------------------------------ claims

\* C1: whenever a pair that fails passesContrast is snapped, the returned
\* pair passes passesContrast under the same options, or the result is marked
\* clamped; a failing pair is never returned unmarked.
C1_FailingPairPassesOrClamped ==
    (Returned /\ contrastRatio(fgHex, bgHex) < thresholdOf(opts) - 1000)
        => \/ ResultClamped
           \/ /\ contrastRatio(result.fg, result.bg) >= thresholdOf(opts) - 1000
              /\ result.ratio >= thresholdOf(opts) - 1000

C1_Witness ==
    /\ ReturnedFromSearch
    /\ contrastRatio(fgHex, bgHex) < thresholdOf(opts) - 1000
    /\ ~result.clamped
    /\ contrastRatio(result.fg, result.bg) >= thresholdOf(opts) - 1000

\* C2 (as claimed): whenever the result is clamped, none of the four
\* adjustment searches on the input pair returns a colour that meets the
\* threshold -- also when the clamped result comes from the ratio-1 shortcut.
C2_ClampedMeansNoPathReaches ==
    (Returned /\ ResultClamped)
        => \A k \in 1..4 :
              binarySearchLightness(searchHsl(k, rgbToHsl(fgRgb), rgbToHsl(bgRgb)),
                                    searchOther(k, fgRgb, bgRgb), threshold,
                                    Paths[k].isForeground,
                                    Paths[k].isLightening).ratio
                  < thresholdOf(opts) - 1000

\* C3: a call with the same colour on both sides returns at once: clamped,
\* ratio exactly 1, both sides the canonical spelling of the colour, no
\* adjusted and no iterations field, and no candidate search was run.
C3_IdenticalColoursShortcut ==
    (Returned /\ canonicalHex(fgHex) = canonicalHex(bgHex))
        => /\ result = [fg |-> canonicalHex(fgHex), bg |-> canonicalHex(fgHex),
                        ratio |-> 1000000, clamped |-> TRUE]
           /\ DOMAIN result = {"fg", "bg", "ratio", "clamped"}
           /\ candidates = <<>>
           /\ evals = 0

C3_Witness ==
    /\ Returned
    /\ fgHex # bgHex
    /\ canonicalHex(fgHex) = canonicalHex(bgHex)
    /\ ResultClamped
    /\ result.ratio = 1000000

\* C4: a pair that already meets the threshold (ratio >= threshold - 0.001)
\* is returned unchanged, with its own ratio and with none of the fields
\* adjusted, clamped, iterations.
C4_AlreadyPassingUnchanged ==
    (Returned /\ contrastRatio(fgHex, bgHex) >= thresholdOf(opts) - 1000)
        => /\ result = [fg |-> canonicalHex(fgHex), bg |-> canonicalHex(bgHex),
                        ratio |-> contrastRatio(fgHex, bgHex)]
           /\ DOMAIN result \cap {"adjusted", "clamped", "iterations"} = {}

C4_Witness ==
    /\ Returned
    /\ contrastRatio(fgHex, bgHex) >= thresholdOf(opts) - 1000
    /\ canonicalHex(fgHex) # canonicalHex(bgHex)
    /\ DOMAIN result = {"fg", "bg", "ratio"}

\* C5: after the candidate searches the winner's colour goes to exactly one
\* side: adjusted = 'fg' leaves bg the input background, adjusted = 'bg'
\* leaves fg the input foreground, and in a result that is not clamped
\* exactly one of fg, bg differs from the input.
C5_OneSideAdjusted ==
    ReturnedFromSearch
        => /\ result.adjusted \in {"fg", "bg"}
           /\ result.adjusted = "fg" => result.bg = canonicalHex(bgHex)
           /\ result.adjusted = "bg" => result.fg = canonicalHex(fgHex)
           /\ ~result.clamped =>
                 (result.fg # canonicalHex(fgHex)) # (result.bg # canonicalHex(bgHex))

C5_Witness ==
    /\ ReturnedFromSearch
    /\ ~result.clamped
    /\ result.adjusted = "bg"
    /\ result.bg # canonicalHex(bgHex)
    /\ result.fg = canonicalHex(fgHex)

\* C6 (as claimed): with more than one member in the tie zone the winner is
\* the first tie-zone member of the preferred side in canonical order
\* ('bg' if only preferBackgroundAdjust is set, 'fg' otherwise).
C6_FirstPreferredInCanonicalOrder ==
    (ReturnedFromSearch /\ PassingSet # {} /\ Cardinality(TieZone) > 1)
        => LET members == {k \in TieZone : SideIsFg(k) = PreferredIsFg}
           IN  /\ members # {}
               /\ BestIndex = CHOOSE k \in members : \A j \in members : k <= j

\* C6 (amended): with more than one member in the tie zone the winner is the
\* first member of the preferred side in ascending order of lightness change
\* (equal changes in canonical order); when the tie zone has no member of the
\* preferred side, the winner is its minimum-change member.
C6_FirstPreferredInChangeOrder ==
    (ReturnedFromSearch /\ PassingSet # {} /\ Cardinality(TieZone) > 1)
        => LET members == {k \in TieZone : SideIsFg(k) = PreferredIsFg}
               pool == IF members # {} THEN members ELSE TieZone
           IN  /\ BestIndex \in pool
               /\ \A j \in pool \ {BestIndex} :
                     \/ ChangeAt(BestIndex) < ChangeAt(j)
                     \/ ChangeAt(BestIndex) = ChangeAt(j) /\ BestIndex < j

C6_Witness ==
    /\ ReturnedFromSearch
    /\ PassingSet # {}
    /\ \E j, k \in TieZone : SideIsFg(j) /\ ~SideIsFg(k)
    /\ ~PreferredIsFg
    /\ ~SideIsFg(BestIndex)

\* C7: when some candidate meets the threshold, the selected candidate is a
\* passing one whose lightness change is at most m + 0.5, m the least change
\* of a passing candidate, and it is the candidate of change m when the tie
\* zone has one member; no failing candidate is selected.
C7_SelectedIsNearMinimalPassing ==
    (ReturnedFromSearch /\ PassingSet # {})
        => /\ BestIndex \in PassingSet
           /\ bestCandidate = candidates[BestIndex]
           /\ 200 * (ChangeAt(BestIndex) - MinPassingChange) <= FullLightness
           /\ Cardinality(TieZone) = 1 => ChangeAt(BestIndex) = MinPassingChange

C7_Witness ==
    /\ ReturnedFromSearch
    /\ Cardinality(PassingSet) >= 3
    /\ Cardinality(TieZone) = 1
    /\ ChangeAt(BestIndex) = MinPassingChange
    /\ \E k \in PassingSet : 200 * (ChangeAt(k) - MinPassingChange) > FullLightness

\* C9 (as claimed): every midpoint of a candidate search is accepted exactly
\* when its ratio is at least threshold - 0.001, the rule of passesContrast.
C9_MidpointAcceptedLikePassesContrast ==
    (pc = "search" /\ search.iterations > 0)
        => (search.accepted <=> search.testRatio >= thresholdOf(opts) - 1000)

C11_SearchIterationsBounded ==
    /\ \A k \in 1..Len(candidates) : candidates[k].iterations \in 1..7
    /\ pc \in {"search", "select"} =>
          /\ search.iterations \in 0..7
          /\ search.iterations = 7 => search.exited
          /\ search.exited => search.iterations >= 1
          /\ (search.exited /\ search.iterations < 7)
                => 1000 * Abs(search.maxL - search.minL) < 65280
    /\ (Returned /\ "iterations" \in DOMAIN result) =>
          /\ ReturnedFromSearch
          /\ result.iterations = candidates[BestIndex].iterations
          /\ result.iterations \in 1..7

C11_Witness ==
    /\ ReturnedFromSearch
    /\ result.iterations = 7
    /\ \E k \in 1..4 : candidates[k].iterations = 1
    /\ 1000 * Abs(search.maxL - search.minL) >= 65280

\* C13: a result that is not clamped is a fixed point: snapping its fg and bg
\* again under the same options returns exactly fg, bg and the same ratio,
\* with no adjusted, clamped or iterations field.
C13_SnapIsIdempotent ==
    (Returned /\ ~ResultClamped)
        => snapToPassingColor(result.fg, result.bg, opts)
              = [fg |-> result.fg, bg |-> result.bg, ratio |-> result.ratio]

C13_Witness ==
    /\ ReturnedFromSearch
    /\ ~result.clamped
    /\ result.fg # canonicalHex(fgHex)
    /\ DOMAIN snapToPassingColor(result.fg, result.bg, opts) = {"fg", "bg", "ratio"}

\* C14: the threshold snapToPassingColor works with is 3.0 when isLargeText
\* or uiComponent is set and 4.5 otherwise, the same one passesContrast uses,
\* and passesContrast holds of a pair exactly when its ratio is at least that
\* threshold minus 0.001.
C14_ThresholdFromFlags ==
    pc \in {"search", "select", "done"}
        => /\ threshold = thresholdOf(opts)
           /\ requiredThreshold(opts) = thresholdOf(opts)
           /\ passesContrast(fgHex, bgHex, opts)
                 <=> contrastRatio(fgHex, bgHex) >= thresholdOf(opts) - 1000
           /\ passesContrast(fgHex, bgHex, opts) <=> DOMAIN result = {"fg", "bg", "ratio"}

C14_Witness ==
    /\ Returned
    /\ opts.uiComponent /\ ~opts.isLargeText
    /\ threshold = 3000000
    /\ contrastRatio(fgHex, bgHex) >= 2999000
    /\ contrastRatio(fgHex, bgHex) < 4499000
    /\ passesContrast(fgHex, bgHex, opts)

\* An optional leading '#' followed by exactly 3 or exactly 6 characters out of
\* 0-9, a-f, A-F.
IsHexCharacter(c) ==
    c \in {"0", "1", "2", "3", "4", "5", "6", "7", "8", "9",
           "a", "b", "c", "d", "e", "f", "A", "B", "C", "D", "E", "F"}

WellFormedHex(hex) ==
    LET digits == IF Len(hex) > 0 /\ hex[1] = "#" THEN Tail(hex) ELSE hex
    IN  /\ Len(digits) \in {3, 6}
        /\ \A i \in 1..Len(digits) : IsHexCharacter(digits[i])

\* C15 (as claimed): hexToRgb returns a colour exactly for the strings made of
\* an optional leading '#' and 3 or 6 hex characters of either case; for every
\* other string -- another length, a character that is no hex digit, a '#'
\* that is not the first character -- it throws the error that names the
\* string and the shapes #RGB and #RRGGBB.
C15_ParsesExactlyWellFormedHex ==
    pc \in {"parsed", "thrown"}
        => /\ pc = "parsed" <=> WellFormedHex(fgHex)
           /\ pc = "thrown" =>
                 result = [error |-> <<"Invalid hex color format: ", fgHex,
                                       ". Expected #RGB or #RRGGBB format.">>]

\* '#' followed by exactly six characters out of 0-9, A-F.
IsCanonicalHex(hex) ==
    /\ Len(hex) = 7
    /\ hex[1] = "#"
    /\ \A i \in 2..7 : hex[i] \in {"0", "1", "2", "3", "4", "5", "6", "7", "8", "9",
                                   "A", "B", "C", "D", "E", "F"}

\* C16: the fg and bg of every returned SnapResult are '#' and six upper-case
\* hex digits, whatever the spelling of the arguments, and rgbToHex writes
\* that form also for channel values below 0 or above 255.
C16_OutputHexIsCanonical ==
    /\ Returned => IsCanonicalHex(result.fg) /\ IsCanonicalHex(result.bg)
    /\ pc = "formatted" => IsCanonicalHex(result.hex)

C16_Witness ==
    /\ pc = "formatted"
    /\ fgRgb.r > 255
    /\ fgRgb.g < 0
    /\ result.hex = <<"#", "F", "F", "0", "0", "0", "A">>

\* C17: for the colours a and b of a call, of its search midpoints and of its
\* result: contrastRatio(a, b) = contrastRatio(b, a), contrastRatio(a, a) is
\* exactly 1, the ratio lies between 1 and 21, and black against white is 21.
C17_RatioSymmetricAndBounded ==
    /\ pc \in {"search", "select", "done"} =>
          /\ contrastRatio(fgHex, bgHex) = contrastRatio(bgHex, fgHex)
          /\ contrastRatio(fgHex, fgHex) = 1000000
          /\ contrastRatio(bgHex, bgHex) = 1000000
          /\ contrastRatio(fgHex, bgHex) \in 1000000..21000000
          /\ currentRatio = contrastRatio(fgHex, bgHex)
          /\ ({canonicalHex(fgHex), canonicalHex(bgHex)}
                  = {<<"#", "0", "0", "0", "0", "0", "0">>,
                     <<"#", "F", "F", "F", "F", "F", "F">>})
                => contrastRatio(fgHex, bgHex) = 21000000
    /\ (pc = "search" /\ search.iterations > 0) =>
          search.testRatio \in 1000000..21000000
    /\ Returned =>
          /\ contrastRatio(result.fg, result.bg) = contrastRatio(result.bg, result.fg)
          /\ contrastRatio(result.fg, result.bg) \in 1000000..21000000

C17_Witness ==
    /\ Returned
    /\ fgHex = <<"#", "0", "0", "0", "0", "0", "0">>
    /\ bgHex = <<"#", "f", "f", "f">>
    /\ currentRatio = 21000000
    /\ contrastRatio(bgHex, fgHex) = 21000000

\* C18: a call whose two arguments are well-formed hex strings never throws:
\* it returns a result, after the searches always from a defined winning
\* candidate that is one of the four, and a returned pair that misses the
\* threshold (identical colours included) is marked clamped.  A call throws
\* only the hex format error of its first malformed argument, before any
\* ratio is computed or any search is run.
C18_ThrowsOnlyFromHexParsing ==
    /\ pc = "thrown" =>
          /\ ~WellFormedHex(fgHex) \/ ~WellFormedHex(bgHex)
          /\ result = [error |-> <<"Invalid hex color format: ",
                                    IF ~WellFormedHex(fgHex) THEN fgHex ELSE bgHex,
                                    ". Expected #RGB or #RRGGBB format.">>]
          /\ currentRatio = 0 /\ evals = 0 /\ candidates = <<>>
    /\ ReturnedFromSearch =>
          /\ \E k \in 1..4 : candidates[k] = bestCandidate
    /\ (Returned /\ contrastRatio(result.fg, result.bg) < thresholdOf(opts) - 1000)
          => ResultClamped
    /\ (Returned /\ canonicalHex(fgHex) = canonicalHex(bgHex)) => ResultClamped

C18_Witness ==
    /\ ReturnedFromSearch
    /\ Cardinality(TieZone) > 1
    /\ \A k \in TieZone : SideIsFg(k) # PreferredIsFg
    /\ bestCandidate = candidates[BestIndex]

\* C19: what a call returns or throws does not depend on lockHue and
\* lockChroma: it is what snapToPassingColor gives for the same fg, bg and
\* other options under each of the four settings of the two flags.
C19_LockOptionsInert ==
    pc \in {"done", "thrown"}
        => \A hue \in BOOLEAN, chroma \in BOOLEAN :
              result = snapToPassingColor(fgHex, bgHex,
                                          [opts EXCEPT !.lockHue = hue,
                                                       !.lockChroma = chroma])

C19_Witness ==
    /\ ReturnedFromSearch
    /\ opts.lockHue /\ opts.lockChroma
    /\ fgHsl.s[1] > 0
    /\ result.adjusted = "fg"
    /\ result = snapToPassingColor(fgHex, bgHex,
                                   [opts EXCEPT !.lockHue = FALSE, !.lockChroma = FALSE])

\* C20: in every returned SnapResult ratio is the contrast ratio of the
\* returned fg and bg and lies between 1 and 21; in a result of the candidate
\* searches it is also the ratio the winning candidate's search recorded.
C20_RatioIsOfReturnedPair ==
    /\ Returned =>
          /\ result.ratio = contrastRatio(result.fg, result.bg)
          /\ result.ratio \in 1000000..21000000
    /\ ReturnedFromSearch =>
          /\ result.ratio = bestCandidate.ratio
          /\ result.ratio = candidates[BestIndex].ratio

C20_Witness ==
    /\ ReturnedFromSearch
    /\ result.adjusted = "bg"
    /\ result.ratio = bestCandidate.ratio
    /\ result.ratio # currentRatio
    /\ result.ratio = contrastRatio(result.fg, result.bg)

\* C21: relativeLuminance of an RGB with integer channels in 0..255 lies
\* between 0 and 1, is exactly 0 for black and exactly 1 for white, and does
\* not decrease when one channel is raised with the other two kept.
C21_LuminanceInUnitRangeAndMonotone ==
    pc = "measured"
        => /\ result.luminance \in 0..1000000
           /\ fgRgb = [r |-> 0, g |-> 0, b |-> 0] => result.luminance = 0
           /\ fgRgb = [r |-> 255, g |-> 255, b |-> 255] => result.luminance = 1000000
           /\ \A c \in 0..254 :
                 /\ relativeLuminance([fgRgb EXCEPT !.r = c])
                       <= relativeLuminance([fgRgb EXCEPT !.r = c + 1])
                 /\ relativeLuminance([fgRgb EXCEPT !.g = c])
                       <= relativeLuminance([fgRgb EXCEPT !.g = c + 1])
                 /\ relativeLuminance([fgRgb EXCEPT !.b = c])
                       <= relativeLuminance([fgRgb EXCEPT !.b = c + 1])

C21_Witness ==
    /\ pc = "measured"
    /\ fgRgb = [r |-> 255, g |-> 255, b |-> 255]
    /\ result.luminance = 1000000

\* The candidate search whose locals the variable search holds: 1 fg-lighten,
\* 2 fg-darken, 3 bg-darken, 4 bg-lighten.
InSearch == pc \in {"search", "select"}

CurrentSearch == IF pc = "search" THEN Len(candidates) + 1 ELSE 4

IsOnForeground(k) == k \in {1, 2}

IsLightening(k) == k \in {1, 4}

\* the input colour the search adjusts and the one it leaves alone
OwnInput(k) == IF IsOnForeground(k) THEN fgRgb ELSE bgRgb

OtherInput(k) == IF IsOnForeground(k) THEN bgRgb ELSE fgRgb

\* HSL lightness of an RGB colour, 100 * (max + min) / 510, in model units
LightnessOf(rgb) ==
    128 * (Max2(rgb.r, Max2(rgb.g, rgb.b)) + Min2(rgb.r, Min2(rgb.g, rgb.b)))

StartL == LightnessOf(OwnInput(CurrentSearch))

SearchInterval ==
    InSearch
        => /\ 0 <= search.minL
           /\ search.minL <= search.maxL
           /\ search.maxL <= 65280
           /\ IsLightening(CurrentSearch) => StartL <= search.minL
           /\ ~IsLightening(CurrentSearch) => search.maxL <= StartL

SearchPass ==
    (pc = "search" /\ pc' = "search" /\ candidates' = candidates
       /\ search'.iterations = search.iterations + 1)
        => /\ (search.minL + search.maxL) % 2 = 0
           /\ \/ /\ 2 * search'.minL = search.minL + search.maxL
                 /\ search'.maxL = search.maxL
              \/ /\ 2 * search'.maxL = search.minL + search.maxL
                 /\ search'.minL = search.minL
           /\ 2 * (search'.maxL - search'.minL) = search.maxL - search.minL

\* C22: throughout every candidate search 0 <= minL <= maxL <= 100, the
\* interval lies in [L0, 100] when lightening and in [0, L0] when darkening
\* (L0 the lightness of the colour being adjusted), and every loop pass
\* replaces exactly one of the two bounds by the midpoint, which halves the
\* width.
C22_IntervalLegalAndHalved == [](SearchInterval) /\ [][SearchPass]_vars

C22_Witness ==
    /\ pc = "search"
    /\ ~IsLightening(CurrentSearch)
    /\ search.iterations = 3
    /\ search.accepted
    /\ 0 < search.minL /\ search.minL < search.maxL /\ search.maxL = StartL
    /\ 8 * (search.maxL - search.minL) = StartL

\* passes of the search in progress whose midpoint had a ratio of at least the
\* threshold
MetPasses ==
    {i \in 1..Len(search.evaluated) : search.evaluated[i].ratio >= thresholdOf(opts)}

LastMetPass == CHOOSE i \in MetPasses : \A j \in MetPasses : j <= i

C24_OnlyLightnessVaries ==
    InSearch
        => \A i \in 1..Len(search.evaluated) :
              LET e == search.evaluated[i]
                  own == rgbToHsl(OwnInput(CurrentSearch))
              IN  /\ e.hsl.h = own.h
                  /\ e.hsl.s = own.s
                  /\ e.rgb = hslToRgb([own EXCEPT !.l = e.hsl.l])
                  /\ IF IsOnForeground(CurrentSearch)
                     THEN e.fgRgb = e.rgb /\ e.bgRgb = hexToRgb(bgHex)
                     ELSE e.bgRgb = e.rgb /\ e.fgRgb = hexToRgb(fgHex)
                  /\ e.ratio = contrastRatio(rgbToHex(e.fgRgb), rgbToHex(e.bgRgb))

C24_Witness ==
    /\ pc = "search"
    /\ CurrentSearch = 3
    /\ bgHsl.s[1] > 0
    /\ candidates[2].rgb # fgRgb
    /\ Len(search.evaluated) >= 2
    /\ search.evaluated[2].fgRgb = hexToRgb(fgHex)
    /\ search.evaluated[2].hsl.s = bgHsl.s
    /\ search.evaluated[2].hsl.l # bgHsl.l

\* the tie zone holds candidates of one side only (or a single candidate)
TieZoneOneSided == \A j \in TieZone, k \in TieZone : SideIsFg(j) = SideIsFg(k)

\* C30: when the tie zone has a single member or members of one side only,
\* the call returns the same result under all four settings of
\* preferForegroundAdjust and preferBackgroundAdjust; and when the tie zone
\* has no member of the preferred side, the selected candidate has the least
\* lightness change of the passing candidates.
C30_PreferenceOnlyDecidesMixedTies ==
    (ReturnedFromSearch /\ PassingSet # {})
        => /\ TieZoneOneSided =>
                 \A preferFg \in BOOLEAN, preferBg \in BOOLEAN :
                    snapToPassingColor(fgHex, bgHex,
                        [opts EXCEPT !.preferForegroundAdjust = preferFg,
                                     !.preferBackgroundAdjust = preferBg]) = result
           /\ (\A k \in TieZone : SideIsFg(k) # PreferredIsFg) =>
                 /\ BestIndex \in TieZone
                 /\ ChangeAt(BestIndex) = MinPassingChange

C30_Witness ==
    /\ ReturnedFromSearch
    /\ PassingSet # {}
    /\ Cardinality(TieZone) > 1
    /\ TieZoneOneSided
    /\ \E j \in TieZone, k \in TieZone : ChangeAt(j) # ChangeAt(k)
    /\ \A k \in TieZone : SideIsFg(k) # PreferredIsFg
    /\ ChangeAt(BestIndex) = MinPassingChange
\* ---------------------------------------------------------------- Staircase
\* The trials of the Staircase so far.
Trials == 1..Len(staircase.trialHistory)

\* The last trial before trial i that called changeLevel, or 0.
LastChangeBefore(i) ==
    LET earlier == {j \in 1..(i - 1) : staircase.stepped[j] # "none"}
    IN  IF earlier = {} THEN 0 ELSE CHOOSE j \in earlier : \A k \in earlier : k <= j

\* The length of the run of responses equal to the response of trial i that
\* ends at trial i and lies after the last level change before it.
RunEndingAt(i) ==
    LET first == LastChangeBefore(i) + 1
        same(j) == \A k \in j..i :
                        staircase.trialHistory[k].correct = staircase.trialHistory[i].correct
        starts == {j \in first..i : same(j)}
    IN  i + 1 - (CHOOSE j \in starts : \A k \in starts : j <= k)

\* The level after trial i.
LevelAfter(i) ==
    IF i = Len(staircase.trialHistory)
    THEN staircase.currentLevel
    ELSE staircase.trialHistory[i + 1].level

\* The trials whose level change has the opposite direction to the previous
\* level change.
ReversalTrials ==
    {i \in Trials : /\ staircase.stepped[i] # "none"
                    /\ LastChangeBefore(i) # 0
                    /\ staircase.stepped[LastChangeBefore(i)] # staircase.stepped[i]}

RECURSIVE LevelsAt(_, _)
LevelsAt(trials, upTo) ==
    IF upTo = 0 THEN <<>>
    ELSE IF upTo \in trials
    THEN Append(LevelsAt(trials, upTo - 1), staircase.trialHistory[upTo].level)
    ELSE LevelsAt(trials, upTo - 1)

InFinePhase == Len(staircase.reversals) >= staircase.coarseThreshold

\* C27: a Staircase created with an initial level in [0,1] keeps currentLevel
\* in [0,1] after every sequence of update calls, in the coarse phase and in
\* the fine phase, and so does every level it records for a trial.
C27_LevelStaysInUnitRange ==
    staircase.constructed =>
        /\ staircase.currentLevel >= 0 /\ staircase.currentLevel <= LevelOne
        /\ \A i \in Trials : /\ staircase.trialHistory[i].level >= 0
                             /\ staircase.trialHistory[i].level <= LevelOne

\* A step of the fine phase that would have left [0,1] and was clamped.
C27_Witness ==
    /\ staircase.constructed
    /\ InFinePhase
    /\ staircase.trialCount >= 3
    /\ LET n == Len(staircase.trialHistory)
       IN  /\ staircase.stepped[n] = "down"
           /\ staircase.currentLevel = 0
           /\ staircase.trialHistory[n].level > 0
           /\ 2 * staircase.trialHistory[n].level < staircase.stepDown
           /\ Len(staircase.reversals) >= 1
           /\ staircase.stepped[n - 1] = "down"

\* C28: a trial steps the level down (calls changeLevel('down'), clamped or
\* not) exactly when it completes a run of rule.downAfter consecutive correct
\* responses since the last level change, and up exactly when it completes a
\* run of rule.upAfter consecutive incorrect responses; every other trial
\* leaves the level as it was; and the reversals are, in order, the levels
\* of exactly the trials whose change reverses the previous change.
C28_StepsFollowRunsAndReversals ==
    staircase.constructed =>
        /\ Len(staircase.stepped) = Len(staircase.trialHistory)
        /\ staircase.trialCount = Len(staircase.trialHistory)
        /\ \A i \in Trials :
              /\ staircase.stepped[i] = "down"
                    <=> (/\ staircase.trialHistory[i].correct
                         /\ RunEndingAt(i) = staircase.rule.downAfter)
              /\ staircase.stepped[i] = "up"
                    <=> (/\ ~staircase.trialHistory[i].correct
                         /\ RunEndingAt(i) = staircase.rule.upAfter)
              /\ staircase.stepped[i] = "none"
                    => LevelAfter(i) = staircase.trialHistory[i].level
        /\ staircase.reversals = LevelsAt(ReversalTrials, Len(staircase.trialHistory))

\* A run of incorrect responses interrupted by a correct one steps nothing,
\* and a later change reverses an earlier one.
C28_Witness ==
    /\ staircase.constructed
    /\ staircase.rule.upAfter = 2
    /\ staircase.rule.downAfter = 2
    /\ Len(staircase.reversals) >= 1
    /\ \E i \in Trials :
          /\ i + 2 \in Trials
          /\ ~staircase.trialHistory[i].correct
          /\ staircase.trialHistory[i + 1].correct
          /\ ~staircase.trialHistory[i + 2].correct
          /\ \A j \in i..(i + 2) : staircase.stepped[j] = "none"
\* -------------------------------------------------------------- theme guard
Sanitized == pc = "sanitized"

\* The options sanitizeThemeTokens hands to passesContrast and to
\* snapToPassingColor for a pair of the given type.
AppliedOptions(type, largeTextDetected) ==
    [isLargeText |-> type = "large-text" \/ largeTextDetected,
     uiComponent |-> type \in {"ui-component", "focus-indicator"}]

\* Whether the call in progress evaluates text pairs as large text.
ContextIsLarge ==
    /\ guard.options.largeTextContext.provided
    /\ isLargeTextFromCSS(orDefault(guard.options.largeTextContext.fontSize, 16),
                          orDefault(guard.options.largeTextContext.fontWeight, 400))

PairPassesInResult(pair) ==
    LET fgValue == result.sanitizedTokens[pair.fg]
        bgValue == result.sanitizedTokens[pair.bg]
    IN  (fgValue # <<>> /\ bgValue # <<>>) =>
            passesContrast(fgValue, bgValue,
                           AppliedOptions(pair.type,
                                          ContextIsLarge /\ isTextType(pair.type)))

\* C25: when sanitizeThemeTokens returns status 'warnings', every semantic
\* pair whose two tokens are present in the returned sanitizedTokens passes
\* passesContrast at the threshold the pair is checked at, pairs checked
\* before a later pair adjusted a token they share included.
C25_WarningsMeansAllPairsPass ==
    (Sanitized /\ result.status = "warnings") =>
        \A i \in 1..Len(SEMANTIC_PAIRS) : PairPassesInResult(SEMANTIC_PAIRS[i])

\* C26: in every AdjustmentLog, thresholdUsed is the threshold that
\* passesContrast and snapToPassingColor applied to the pair, which is 3.0
\* for large-text, ui-component and focus-indicator pairs and 4.5 for
\* normal-text pairs.
C26_ThresholdUsedIsAppliedThreshold ==
    Sanitized =>
        \A i \in 1..Len(result.adjustments) :
            LET log == result.adjustments[i]
                applied == AppliedOptions(log.thresholdType, log.largeTextDetected)
            IN  /\ log.thresholdUsed = requiredThreshold(applied)
                /\ log.thresholdUsed = snapThreshold(applied)
                /\ log.thresholdUsed =
                       (IF log.thresholdType = "normal-text" THEN 4500000 ELSE 3000000)

=============================================================================
